---------------------------- MODULE Spec2Model ----------------------------
(***************************************************************************)
(* State-machine model of the flash-loan / arbitrage / mock-DEX programs.  *)
(*                                                                         *)
(* Programs modelled:                                                      *)
(*   mock_pool      (initialised loan pool, emergency_pause, resume_pool)  *)
(*   flash-loan     (atomic_flash_loan_with_arbitrage and its handlers)    *)
(*   arbitrage_bot  (execute_arbitrage_atomic and its handlers)            *)
(*   mock_dex       (swap, initialize_pool, execute_trade_from_state)      *)
(*   shared         (MockPoolState helpers, TransactionRecord)             *)
(*                                                                         *)
(* Every instruction runs as a sequence of steps driven by pc.  The        *)
(* account data the handlers work on is the state; `saved` is the copy     *)
(* the host keeps from the start of the transaction and restores when the  *)
(* instruction returns Err.                                                *)
(*                                                                         *)
(* u64 / u128 arithmetic whose width matters is computed on numbers held   *)
(* as little-endian sequences of base-10000 limbs ("Big"), because the     *)
(* model checker's own integers are 32 bits wide.                          *)
(***************************************************************************)
EXTENDS Integers, Sequences, FiniteSets, TLC

VARIABLES
    pool_state,     \* MockPoolState: the loan pool's ledger
    lamports,       \* native balances of the pool account and the borrower
    dex,            \* MockDexPool x_balance / y_balance, by pool name
    vaults,         \* token vault balances, by pool name
    tokens,         \* token holdings of the bot's and the trader's accounts
    arbitrage_bot,  \* ArbitrageBotState
    records,        \* TransactionRecord accounts created so far
    dex_trade_state,\* DexTradeState accounts, by trade id
    clock,          \* Clock::get()?.unix_timestamp
    saved,          \* account state at the start of the current transaction
    pc,             \* position of the running instruction
    tx,             \* arguments and locals of the running instruction
    sw,             \* arguments and locals of the running swap
    err,            \* result of the last step that returned
    txCount,        \* number of transactions submitted so far
    calc            \* input and result of a pure-function evaluation

vars == <<pool_state, lamports, dex, vaults, tokens, arbitrage_bot, records,
          dex_trade_state, clock, saved, pc, tx, sw, err, txCount, calc>>

-----------------------------------------------------------------------------
(* Program constants *)

\* 10_000 basis points = 100%; also the limb base of Big numbers, so that
\* checked_div(10_000) is the removal of the lowest limb.
BPS_DENOMINATOR == 10000

\* mock_dex swap: let fee_bps = 30
DEX_FEE_BPS == 30

\* mock_pool initialize: require!(fee_bps <= 1000)
MAX_POOL_FEE_BPS == 1000

(* Bounds of the model *)
MaxTx == 2
MaxClock == 1

-----------------------------------------------------------------------------
(* Big numbers: little-endian sequences of limbs in 0..9999, no leading    *)
(* zero limb; zero is <<>>.                                                *)

RECURSIVE BigNorm(_)
BigNorm(b) ==
    IF b = <<>> THEN <<>>
    ELSE IF b[Len(b)] = 0 THEN BigNorm(SubSeq(b, 1, Len(b) - 1))
    ELSE b

RECURSIVE BigFromNat(_)
BigFromNat(n) ==
    IF n = 0 THEN <<>>
    ELSE <<n % BPS_DENOMINATOR>> \o BigFromNat(n \div BPS_DENOMINATOR)

RECURSIVE BigToNat(_)
BigToNat(b) ==
    IF b = <<>> THEN 0
    ELSE Head(b) + BPS_DENOMINATOR * BigToNat(Tail(b))

RECURSIVE BigMulCarry(_, _, _)
BigMulCarry(b, k, c) ==
    IF b = <<>> THEN BigFromNat(c)
    ELSE LET t == Head(b) * k + c
         IN  <<t % BPS_DENOMINATOR>> \o BigMulCarry(Tail(b), k, t \div BPS_DENOMINATOR)

\* b * k for a small k (k <= 65535)
BigMulSmall(b, k) == BigNorm(BigMulCarry(b, k, 0))

RECURSIVE BigAddCarry(_, _, _)
BigAddCarry(a, b, c) ==
    IF a = <<>> /\ b = <<>> THEN BigFromNat(c)
    ELSE LET x == IF a = <<>> THEN 0 ELSE Head(a)
             y == IF b = <<>> THEN 0 ELSE Head(b)
             t == x + y + c
         IN  <<t % BPS_DENOMINATOR>>
               \o BigAddCarry(IF a = <<>> THEN <<>> ELSE Tail(a),
                              IF b = <<>> THEN <<>> ELSE Tail(b),
                              t \div BPS_DENOMINATOR)

BigAdd(a, b) == BigNorm(BigAddCarry(a, b, 0))

RECURSIVE BigLessFrom(_, _, _)
BigLessFrom(a, b, i) ==
    IF i = 0 THEN FALSE
    ELSE IF a[i] # b[i] THEN a[i] < b[i]
    ELSE BigLessFrom(a, b, i - 1)

BigLess(a, b) ==
    IF Len(a) # Len(b) THEN Len(a) < Len(b)
    ELSE BigLessFrom(a, b, Len(a))

BigLeq(a, b) == a = b \/ BigLess(a, b)

\* a - b for a >= b
RECURSIVE BigSubBorrow(_, _, _)
BigSubBorrow(a, b, c) ==
    IF a = <<>> THEN <<>>
    ELSE LET y == IF b = <<>> THEN 0 ELSE Head(b)
             t == Head(a) - y - c
         IN  <<IF t < 0 THEN t + BPS_DENOMINATOR ELSE t>>
               \o BigSubBorrow(Tail(a), IF b = <<>> THEN <<>> ELSE Tail(b),
                               IF t < 0 THEN 1 ELSE 0)

BigSub(a, b) == BigNorm(BigSubBorrow(a, b, 0))

\* a * b, schoolbook
RECURSIVE BigMul(_, _)
BigMul(a, b) ==
    IF b = <<>> \/ a = <<>> THEN <<>>
    ELSE BigAdd(BigMulSmall(a, Head(b)),
                LET r == BigMul(a, Tail(b)) IN IF r = <<>> THEN <<>> ELSE <<0>> \o r)

\* floor(b / 10_000)
BigDivBps(b) == IF b = <<>> THEN <<>> ELSE Tail(b)

\* u64::MAX = 18_446_744_073_709_551_615
U64_MAX == <<1615, 955, 737, 6744, 1844>>

\* u128::MAX = 340_282_366_920_938_463_463_374_607_431_768_211_455
U128_MAX == <<1455, 6821, 4317, 4607, 6337, 4634, 938, 6692, 2823, 340>>

\* `as u64`: the value modulo 2^64
RECURSIVE AsU64(_)
AsU64(b) ==
    IF BigLeq(b, U64_MAX) THEN b
    ELSE AsU64(BigSub(b, BigAdd(U64_MAX, <<1>>)))

\* q = floor(n / d), stated without dividing
IsFloorDiv(q, n, d) ==
    /\ BigLeq(BigMul(q, d), n)
    /\ BigLess(n, BigMul(BigAdd(q, <<1>>), d))

-----------------------------------------------------------------------------
(* Checked u64 arithmetic and the pure functions of the programs.  Each    *)
(* returns [ok, val, err]; val is a Big.                                   *)

Ok(v) == [ok |-> TRUE, val |-> v, err |-> "Ok"]
Fails(e) == [ok |-> FALSE, val |-> <<>>, err |-> e]

\* u64::checked_mul by a small factor
checked_mul(a, k, e) ==
    LET p == BigMulSmall(a, k)
    IN  IF BigLeq(p, U64_MAX) THEN Ok(p) ELSE Fails(e)

\* u64::checked_add
checked_add(a, b, e) ==
    LET s == BigAdd(a, b)
    IN  IF BigLeq(s, U64_MAX) THEN Ok(s) ELSE Fails(e)

\* u64::checked_sub
checked_sub(a, b, e) ==
    IF BigLeq(b, a) THEN Ok(BigSub(a, b)) ELSE Fails(e)

\* u64::saturating_sub on model integers
saturating_sub(a, b) == IF a >= b THEN a - b ELSE 0

\* calculate_fee without the widening: the product is taken in u64
calculate_fee_u64(amount, fee_bps) ==
    LET m == checked_mul(amount, fee_bps, "AccountNotEnoughKeys")
    IN  IF m.ok THEN Ok(BigDivBps(m.val)) ELSE m

\* MockPoolState::calculate_fee:
\*   (amount as u128).checked_mul(fee_bps as u128)
\*       .and_then(|v| v.checked_div(10_000)).map(|v| v as u64)
calculate_fee(amount, fee_bps) ==
    LET p == BigMulSmall(amount, fee_bps)
    IN  IF BigLeq(p, U128_MAX)
        THEN Ok(AsU64(BigDivBps(p)))
        ELSE Fails("AccountNotEnoughKeys")

\* the price calculation without the fee
swap_amount_out_no_fee(amount_in) ==
    LET m == checked_mul(amount_in, BPS_DENOMINATOR, "Overflow")
    IN  IF m.ok THEN Ok(BigDivBps(m.val)) ELSE m

\* mock_dex swap, the price calculation:
\*   amount_in.checked_mul(10000 - fee_bps).ok_or(Overflow)?
\*            .checked_div(10000).ok_or(Underflow)?
swap_amount_out(amount_in) ==
    LET m == checked_mul(amount_in, BPS_DENOMINATOR - DEX_FEE_BPS, "Overflow")
    IN  IF m.ok THEN Ok(BigDivBps(m.val)) ELSE m

\* ArbitrageHandler::calculate_min_amount_out
\* the same without the 90% slippage tolerance layer
calculate_min_amount_out_no_tolerance(amount_in) ==
    LET m1 == checked_mul(amount_in, 9970, "CalculationOverflow")
    IN  IF ~m1.ok THEN m1 ELSE Ok(BigDivBps(m1.val))

calculate_min_amount_out(amount_in) ==
    LET m1 == checked_mul(amount_in, 9970, "CalculationOverflow")
        e  == BigDivBps(m1.val)
        m2 == checked_mul(e, 9000, "CalculationOverflow")
    IN  IF ~m1.ok THEN m1
        ELSE IF ~m2.ok THEN m2
        ELSE Ok(BigDivBps(m2.val))

\* can_lend that also accepts a pool in Emergency
can_lend_in_emergency(ps) == ps.status \in {"Active", "Emergency"}

\* MockPoolState::can_lend
can_lend(ps) == ps.status = "Active"

\* MockPoolState::has_sufficient_funds
has_sufficient_funds(ps, amount) == ps.balance >= amount

\* validate_inputs without the is_executing check
validate_inputs_no_latch(bot, loan_amount, min_expected_profit) ==
    IF ~(loan_amount > 0) THEN "InvalidLoanAmount"
    ELSE IF ~(min_expected_profit > 0) THEN "InvalidProfitRequirement"
    ELSE "Ok"

\* validate_inputs looking at the arguments before the latch
validate_inputs_params_first(bot, loan_amount, min_expected_profit) ==
    IF ~(loan_amount > 0) THEN "InvalidLoanAmount"
    ELSE IF ~(min_expected_profit > 0) THEN "InvalidProfitRequirement"
    ELSE IF bot.is_executing THEN "ReentrancyDetected"
    ELSE "Ok"

\* ArbitrageHandler::validate_inputs: the error it returns, or "Ok"
validate_inputs(bot, loan_amount, min_expected_profit) ==
    IF bot.is_executing THEN "ReentrancyDetected"
    ELSE IF ~(loan_amount > 0) THEN "InvalidLoanAmount"
    ELSE IF ~(min_expected_profit > 0) THEN "InvalidProfitRequirement"
    ELSE "Ok"

\* validate_and_prepare without the check of the pool's status
validate_and_prepare_no_status(ps, amount) ==
    LET f == calculate_fee(BigFromNat(amount), ps.fee_bps)
    IN  IF ~f.ok THEN [err |-> f.err, fee |-> 0]
        ELSE IF ~has_sufficient_funds(ps, amount)
             THEN [err |-> "InsufficientPoolBalance", fee |-> 0]
        ELSE [err |-> "Ok", fee |-> BigToNat(f.val)]

\* FlashLoanHandler::validate_and_prepare: [err, fee]
validate_and_prepare(ps, amount) ==
    LET f == calculate_fee(BigFromNat(amount), ps.fee_bps)
    IN  IF ~f.ok THEN [err |-> f.err, fee |-> 0]
        ELSE IF ~can_lend(ps) THEN [err |-> "PoolNotActive", fee |-> 0]
        ELSE IF ~has_sufficient_funds(ps, amount)
             THEN [err |-> "InsufficientPoolBalance", fee |-> 0]
        ELSE [err |-> "Ok", fee |-> BigToNat(f.val)]

\* the checks of swap without the slippage check
swap_checks_no_slippage(p, input_is_x, amount_in, min_amount_out) ==
    LET o   == swap_amount_out(BigFromNat(amount_in))
        out == BigToNat(o.val)
        reserve_out == IF input_is_x THEN p.y_balance ELSE p.x_balance
    IN  IF ~o.ok THEN [err |-> o.err, amount_out |-> 0]
        ELSE IF ~(reserve_out >= out)
             THEN [err |-> "InsufficientLiquidity", amount_out |-> out]
        ELSE [err |-> "Ok", amount_out |-> out]

\* the checks of swap without the liquidity check
swap_checks_no_liquidity(p, input_is_x, amount_in, min_amount_out) ==
    LET o   == swap_amount_out(BigFromNat(amount_in))
        out == BigToNat(o.val)
    IN  IF ~o.ok THEN [err |-> o.err, amount_out |-> 0]
        ELSE IF ~(out >= min_amount_out)
             THEN [err |-> "SlippageTooHigh", amount_out |-> out]
        ELSE [err |-> "Ok", amount_out |-> out]

\* mock_dex swap, lines 181-196: price, slippage check, liquidity check.
\* [err, amount_out]
swap_checks(p, input_is_x, amount_in, min_amount_out) ==
    LET o   == swap_amount_out(BigFromNat(amount_in))
        out == BigToNat(o.val)
        reserve_out == IF input_is_x THEN p.y_balance ELSE p.x_balance
    IN  IF ~o.ok THEN [err |-> o.err, amount_out |-> 0]
        ELSE IF ~(out >= min_amount_out)
             THEN [err |-> "SlippageTooHigh", amount_out |-> out]
        ELSE IF ~(reserve_out >= out)
             THEN [err |-> "InsufficientLiquidity", amount_out |-> out]
        ELSE [err |-> "Ok", amount_out |-> out]

\* the reserve update that debits the output reserve and forgets to credit
\* the input reserve
swap_update_no_credit(p, input_is_x, amount_in, amount_out) ==
    LET rout == IF input_is_x THEN p.y_balance ELSE p.x_balance
        s == checked_sub(BigFromNat(rout), BigFromNat(amount_out), "Underflow")
    IN  IF ~s.ok THEN [err |-> s.err, pool |-> p]
        ELSE [err |-> "Ok",
              pool |-> IF input_is_x
                       THEN [p EXCEPT !.y_balance = BigToNat(s.val)]
                       ELSE [p EXCEPT !.x_balance = BigToNat(s.val)]]

\* mock_dex swap, lines 212-218: the reserve update. [err, pool]
swap_update(p, input_is_x, amount_in, amount_out) ==
    LET rin  == IF input_is_x THEN p.x_balance ELSE p.y_balance
        rout == IF input_is_x THEN p.y_balance ELSE p.x_balance
        a == checked_add(BigFromNat(rin), BigFromNat(amount_in), "Overflow")
        s == checked_sub(BigFromNat(rout), BigFromNat(amount_out), "Underflow")
    IN  IF ~a.ok THEN [err |-> a.err, pool |-> p]
        ELSE IF ~s.ok THEN [err |-> s.err, pool |-> p]
        ELSE [err |-> "Ok",
              pool |-> IF input_is_x
                       THEN [x_balance |-> BigToNat(a.val), y_balance |-> BigToNat(s.val)]
                       ELSE [x_balance |-> BigToNat(s.val), y_balance |-> BigToNat(a.val)]]

-----------------------------------------------------------------------------
(* Inputs the callers choose *)

LoanAmounts  == {0, 10, 20, 50}
ProfitFloors == {0, 1, 5}
SwapAmounts  == {0, 1, 10, 20}
MinAmountsOut == {0, 10}
PoolNames    == {"A", "B"}
TokenSides   == {"x", "y"}
Signers      == {"admin", "mallory"}
Users        == {"borrower", "mallory"}

(* State after mock_pool::initialize(40, 1000) by "admin", after           *)
(* initialize_pool of pools A (28 / 28) and B (28 / 30), with the          *)
(* arbitrage_bot account zero-initialised by init_if_needed.               *)

InitPoolState ==
    [balance |-> 40, fee_bps |-> MAX_POOL_FEE_BPS, authority |-> "admin",
     total_borrowed |-> 0, total_repaid |-> 0, active_loans |-> 0,
     last_updated |-> 0, status |-> "Active"]

\* the pool account holds its rent reserve (2) besides the seeded balance;
\* "admin" paid both out of 50, "mallory" still has her 50
InitLamports == [pool |-> 42, borrower |-> 2, admin |-> 8, mallory |-> 50]

InitDex ==
    [A |-> [x_balance |-> 28, y_balance |-> 28],
     B |-> [x_balance |-> 28, y_balance |-> 30]]

InitVaults == [A |-> [x |-> 28, y |-> 28], B |-> [x |-> 28, y |-> 30]]

InitTokens == [bot |-> [x |-> 21, y |-> 12], trader |-> [x |-> 40, y |-> 40]]

InitBot == [is_executing |-> FALSE, total_trades |-> 0, total_profit |-> 0]

\* two trade requests waiting for execute_trade_from_state, the second one
\* larger than either pool's Y reserve
InitTrades ==
    [i \in {1, 2} |->
        [trade_id |-> i, amount_in |-> IF i = 1 THEN 10 ELSE 40,
         status |-> "Pending", actual_amount_out |-> 0]]

NoTx == [ix |-> "none", amount |-> 0, min_expected_profit |-> 0, tin |-> "x",
         fee |-> 0, first_result |-> 0, second_result |-> 0, profit |-> 0,
         cache |-> [x |-> 0, y |-> 0], validated |-> FALSE,
         signer |-> "none", trade_id |-> 0, pool_name |-> "none",
         initial_x_amount |-> 0, initial_y_amount |-> 0,
         initial_balance |-> 0, fee_bps |-> 0]

\* `before`, `vault_before` and `holder_before` are the pool, its vaults and
\* the holder's token accounts as the swap found them
NoSwap == [pool |-> "A", holder |-> "bot", tin |-> "x", amount_in |-> 0,
           min_amount_out |-> 0, amount_out |-> 0, ret |-> "none",
           before |-> [x_balance |-> 0, y_balance |-> 0],
           vault_before |-> [x |-> 0, y |-> 0],
           holder_before |-> [x |-> 0, y |-> 0]]

NoCalc == [fn |-> "none", amount |-> <<>>, fee_bps |-> 0,
           reserve_in |-> <<>>, reserve_out |-> <<>>,
           done |-> FALSE, res |-> Ok(<<>>)]

\* the account data of all programs, as the host saves and restores it
Accounts ==
    [pool_state |-> pool_state, lamports |-> lamports, dex |-> dex,
     vaults |-> vaults, tokens |-> tokens, arbitrage_bot |-> arbitrage_bot,
     records |-> records, dex_trade_state |-> dex_trade_state]

InitAccounts ==
    /\ pool_state = InitPoolState
    /\ lamports = InitLamports
    /\ dex = InitDex
    /\ vaults = InitVaults
    /\ tokens = InitTokens
    /\ arbitrage_bot = InitBot
    /\ records = {}
    /\ dex_trade_state = InitTrades

Init ==
    /\ InitAccounts
    /\ clock = 0
    /\ saved = Accounts
    /\ pc = "idle"
    /\ tx = NoTx
    /\ sw = NoSwap
    /\ err = "none"
    /\ txCount = 0
    /\ calc = NoCalc

acct == <<pool_state, lamports, dex, vaults, tokens, arbitrage_bot, records,
          dex_trade_state>>

\* the pool_state account exists once `init` has funded it
PoolExists == lamports.pool > 0

-----------------------------------------------------------------------------
(* The host: a transaction starts from "idle"; an instruction that returns *)
(* Err leaves pc = "failed", and the host then discards every account      *)
(* write of the transaction.                                               *)

CanSubmit == pc = "idle" /\ txCount < MaxTx

Submit(t) ==
    /\ CanSubmit
    /\ txCount' = txCount + 1
    /\ saved' = Accounts
    /\ tx' = t
    /\ UNCHANGED <<clock, calc>>

\* the running instruction returns Err(e)
Fail(e) == pc' = "failed" /\ err' = e

\* the top-level instruction returns Ok: the host commits
Commit == pc' = "idle" /\ err' = "Ok"

Restore(s) ==
    /\ pool_state' = s.pool_state
    /\ lamports' = s.lamports
    /\ dex' = s.dex
    /\ vaults' = s.vaults
    /\ tokens' = s.tokens
    /\ arbitrage_bot' = s.arbitrage_bot
    /\ records' = s.records
    /\ dex_trade_state' = s.dex_trade_state

HostAbort ==
    /\ pc = "failed"
    /\ Restore(saved)
    /\ pc' = "idle"
    /\ UNCHANGED <<clock, saved, tx, sw, err, txCount, calc>>

Tick ==
    /\ pc = "idle"
    /\ clock < MaxClock
    /\ clock' = clock + 1
    /\ UNCHANGED <<acct, saved, pc, tx, sw, err, txCount, calc>>

-----------------------------------------------------------------------------
(* mock_pool: emergency_pause and resume_pool *)

\* emergency_pause / resume_pool without the check of the signer
set_status_unchecked(signer, status) ==
    /\ pool_state' = [pool_state EXCEPT !.status = status,
                                        !.last_updated = clock]
    /\ Commit

set_status(signer, status) ==
    IF pool_state.authority = signer
    THEN /\ pool_state' = [pool_state EXCEPT !.status = status,
                                             !.last_updated = clock]
         /\ Commit
    ELSE /\ UNCHANGED pool_state
         /\ Fail("InvalidAuthority")

emergency_pause(signer) ==
    /\ Submit([NoTx EXCEPT !.ix = "emergency_pause", !.signer = signer])
    /\ IF PoolExists
       THEN set_status(signer, "Emergency")
       ELSE UNCHANGED pool_state /\ Fail("AccountNotInitialized")
    /\ UNCHANGED <<lamports, dex, vaults, tokens, arbitrage_bot, records, dex_trade_state, sw>>

resume_pool(signer) ==
    /\ Submit([NoTx EXCEPT !.ix = "resume_pool", !.signer = signer])
    /\ IF PoolExists
       THEN set_status(signer, "Active")
       ELSE UNCHANGED pool_state /\ Fail("AccountNotInitialized")
    /\ UNCHANGED <<lamports, dex, vaults, tokens, arbitrage_bot, records, dex_trade_state, sw>>

-----------------------------------------------------------------------------
(* mock_pool: initialize, with the signer as payer and authority *)

\* the pool_state account as `init` creates it: zeroed data, and the first
\* variant of PoolStatus
ZeroPoolState ==
    [balance |-> 0, fee_bps |-> 0, authority |-> "none",
     total_borrowed |-> 0, total_repaid |-> 0, active_loans |-> 0,
     last_updated |-> 0, status |-> "Initializing"]

\* the lamports the payer puts into the new account for its rent
Rent == InitLamports.pool - InitPoolState.balance

\* the accounts of the instruction: pool_state is `init` at its one address
initialize_begin(signer, initial_balance, fee_bps) ==
    /\ Submit([NoTx EXCEPT !.ix = "initialize", !.signer = signer,
                           !.initial_balance = initial_balance,
                           !.fee_bps = fee_bps])
    /\ IF PoolExists
       THEN /\ Fail("AccountAlreadyInUse")
            /\ UNCHANGED <<pool_state, lamports>>
       ELSE IF lamports[signer] < Rent
       THEN /\ Fail("ResultWithNegativeLamports")
            /\ UNCHANGED <<pool_state, lamports>>
       ELSE /\ lamports' = [lamports EXCEPT ![signer] = @ - Rent, !.pool = Rent]
            /\ pool_state' = ZeroPoolState
            /\ pc' = "init_pool_set"
            /\ UNCHANGED err
    /\ UNCHANGED <<dex, vaults, tokens, arbitrage_bot, records,
                   dex_trade_state, sw>>

\* initialize writing the fields without looking at fee_bps
initialize_set_no_fee_check ==
    /\ pc = "init_pool_set"
    /\ IF ~(tx.initial_balance > 0)
       THEN /\ Fail("InvalidInitialBalance")
            /\ UNCHANGED pool_state
       ELSE /\ pool_state' = [balance |-> tx.initial_balance,
                              fee_bps |-> tx.fee_bps,
                              authority |-> tx.signer,
                              total_borrowed |-> 0, total_repaid |-> 0,
                              active_loans |-> 0, last_updated |-> clock,
                              status |-> "Active"]
            /\ pc' = "init_pool_transfer"
            /\ UNCHANGED err
    /\ UNCHANGED <<lamports, dex, vaults, tokens, arbitrage_bot, records,
                   dex_trade_state, clock, saved, tx, sw, txCount, calc>>

\* lines 14-28: the two checks and the fields
initialize_set ==
    /\ pc = "init_pool_set"
    /\ IF ~(tx.fee_bps <= MAX_POOL_FEE_BPS)
       THEN /\ Fail("InvalidFeeRate")
            /\ UNCHANGED pool_state
       ELSE IF ~(tx.initial_balance > 0)
       THEN /\ Fail("InvalidInitialBalance")
            /\ UNCHANGED pool_state
       ELSE /\ pool_state' = [balance |-> tx.initial_balance,
                              fee_bps |-> tx.fee_bps,
                              authority |-> tx.signer,
                              total_borrowed |-> 0, total_repaid |-> 0,
                              active_loans |-> 0, last_updated |-> clock,
                              status |-> "Active"]
            /\ pc' = "init_pool_transfer"
            /\ UNCHANGED err
    /\ UNCHANGED <<lamports, dex, vaults, tokens, arbitrage_bot, records,
                   dex_trade_state, clock, saved, tx, sw, txCount, calc>>

\* lines 31-43: system_program::transfer(authority -> pool_state)
initialize_transfer ==
    /\ pc = "init_pool_transfer"
    /\ IF lamports[tx.signer] >= tx.initial_balance
       THEN /\ lamports' = [lamports EXCEPT ![tx.signer] = @ - tx.initial_balance,
                                            !.pool = @ + tx.initial_balance]
            /\ Commit
       ELSE /\ UNCHANGED lamports
            /\ Fail("ResultWithNegativeLamports")
    /\ UNCHANGED <<pool_state, dex, vaults, tokens, arbitrage_bot, records,
                   dex_trade_state, clock, saved, tx, sw, txCount, calc>>

-----------------------------------------------------------------------------
(* mock_dex: swap, in the order of its statements *)

SwapSteps == {"swap_check", "swap_transfer_in", "swap_update", "swap_transfer_out"}

InputIsX == sw.tin = "x"
OutSide == IF InputIsX THEN "y" ELSE "x"

\* the instruction as a transaction of its own, on the trader's accounts
swap_begin(name, tin, amount_in, min_amount_out) ==
    /\ Submit([NoTx EXCEPT !.ix = "swap"])
    /\ sw' = [pool |-> name, holder |-> "trader", tin |-> tin,
              amount_in |-> amount_in, min_amount_out |-> min_amount_out,
              amount_out |-> 0, ret |-> "return", before |-> dex[name],
              vault_before |-> vaults[name],
              holder_before |-> tokens["trader"]]
    /\ pc' = "swap_check"
    /\ UNCHANGED <<acct, err>>

\* the checks of swap handing over to the reserve update first
swap_check_update_first ==
    /\ pc = "swap_check"
    /\ LET c == swap_checks(dex[sw.pool], InputIsX, sw.amount_in, sw.min_amount_out)
       IN  /\ sw' = [sw EXCEPT !.amount_out = c.amount_out]
           /\ IF c.err = "Ok"
              THEN pc' = "swap_update" /\ UNCHANGED err
              ELSE Fail(c.err)
    /\ UNCHANGED <<acct, clock, saved, tx, txCount, calc>>

\* lines 181-196
swap_check ==
    /\ pc = "swap_check"
    /\ LET c == swap_checks(dex[sw.pool], InputIsX, sw.amount_in, sw.min_amount_out)
       IN  /\ sw' = [sw EXCEPT !.amount_out = c.amount_out]
           /\ IF c.err = "Ok"
              THEN pc' = "swap_transfer_in" /\ UNCHANGED err
              ELSE Fail(c.err)
    /\ UNCHANGED <<acct, clock, saved, tx, txCount, calc>>

\* lines 198-209: token::transfer(user -> vault, amount_in)
swap_transfer_in ==
    /\ pc = "swap_transfer_in"
    /\ IF tokens[sw.holder][sw.tin] >= sw.amount_in
       THEN /\ tokens' = [tokens EXCEPT ![sw.holder][sw.tin] = @ - sw.amount_in]
            /\ vaults' = [vaults EXCEPT ![sw.pool][sw.tin] = @ + sw.amount_in]
            /\ pc' = "swap_update"
            /\ UNCHANGED err
       ELSE /\ UNCHANGED <<tokens, vaults>>
            /\ Fail("TokenInsufficientFunds")
    /\ UNCHANGED <<pool_state, lamports, dex, arbitrage_bot, records, dex_trade_state,
                   clock, saved, tx, sw, txCount, calc>>

\* lines 211-218
swap_update_reserves ==
    /\ pc = "swap_update"
    /\ LET u == swap_update(dex[sw.pool], InputIsX, sw.amount_in, sw.amount_out)
       IN  IF u.err = "Ok"
           THEN /\ dex' = [dex EXCEPT ![sw.pool] = u.pool]
                /\ pc' = "swap_transfer_out"
                /\ UNCHANGED err
           ELSE /\ UNCHANGED dex
                /\ Fail(u.err)
    /\ UNCHANGED <<pool_state, lamports, vaults, tokens, arbitrage_bot, records, dex_trade_state,
                   clock, saved, tx, sw, txCount, calc>>

\* lines 220-252: token::transfer(vault -> user, amount_out), then Ok
swap_transfer_out ==
    /\ pc = "swap_transfer_out"
    /\ IF vaults[sw.pool][OutSide] >= sw.amount_out
       THEN /\ vaults' = [vaults EXCEPT ![sw.pool][OutSide] = @ - sw.amount_out]
            /\ tokens' = [tokens EXCEPT ![sw.holder][OutSide] = @ + sw.amount_out]
            /\ IF sw.ret = "return"
               THEN Commit
               ELSE pc' = sw.ret /\ UNCHANGED err
       ELSE /\ UNCHANGED <<tokens, vaults>>
            /\ Fail("TokenInsufficientFunds")
    /\ UNCHANGED <<pool_state, lamports, dex, arbitrage_bot, records, dex_trade_state,
                   clock, saved, tx, sw, txCount, calc>>

-----------------------------------------------------------------------------
(* mock_dex: initialize_pool, with "trader" as the initializer *)

LongPoolName == "a-pool-name-of-thirty-three-bytes"

\* pool_name.len() of the names the callers use
name_len(pool_name) ==
    CASE pool_name = "" -> 0
      [] pool_name = LongPoolName -> 33
      [] OTHER -> 1

\* the accounts of the instruction: the pool is `init` at the address
\* seeded by pool_name (a seed holds at most 32 bytes), and the two vaults
\* are `init` as empty token accounts
initialize_pool_begin(pool_name, initial_x_amount, initial_y_amount) ==
    /\ Submit([NoTx EXCEPT !.ix = "initialize_pool",
                           !.pool_name = pool_name,
                           !.initial_x_amount = initial_x_amount,
                           !.initial_y_amount = initial_y_amount])
    /\ IF name_len(pool_name) > 32
       THEN /\ Fail("MaxSeedLengthExceeded")
            /\ UNCHANGED <<dex, vaults>>
       ELSE IF pool_name \in DOMAIN dex
       THEN /\ Fail("AccountAlreadyInUse")
            /\ UNCHANGED <<dex, vaults>>
       ELSE /\ dex' = [n \in DOMAIN dex \cup {pool_name} |->
                          IF n = pool_name
                          THEN [x_balance |-> 0, y_balance |-> 0]
                          ELSE dex[n]]
            /\ vaults' = [n \in DOMAIN vaults \cup {pool_name} |->
                             IF n = pool_name
                             THEN [x |-> 0, y |-> 0]
                             ELSE vaults[n]]
            /\ pc' = "init_check"
            /\ UNCHANGED err
    /\ UNCHANGED <<pool_state, lamports, tokens, arbitrage_bot, records,
                   dex_trade_state, sw>>

\* the checks of initialize_pool without those on the initializer's holdings
initialize_pool_check_no_funds_check ==
    /\ pc = "init_check"
    /\ IF ~(name_len(tx.pool_name) # 0 /\ name_len(tx.pool_name) <= 32)
       THEN Fail("InvalidPoolName")
       ELSE IF ~(tx.initial_x_amount > 0 /\ tx.initial_y_amount > 0)
       THEN Fail("InvalidPoolName")
       ELSE pc' = "init_transfer_x" /\ UNCHANGED err
    /\ UNCHANGED <<acct, clock, saved, tx, sw, txCount, calc>>

\* the checks of initialize_pool handing over to the reserve update first
initialize_pool_check_set_first ==
    /\ pc = "init_check"
    /\ IF ~(name_len(tx.pool_name) # 0 /\ name_len(tx.pool_name) <= 32)
       THEN Fail("InvalidPoolName")
       ELSE IF ~(tx.initial_x_amount > 0 /\ tx.initial_y_amount > 0)
       THEN Fail("InvalidPoolName")
       ELSE IF ~(tokens["trader"].x >= tx.initial_x_amount)
       THEN Fail("InsufficientLiquidity")
       ELSE IF ~(tokens["trader"].y >= tx.initial_y_amount)
       THEN Fail("InsufficientLiquidity")
       ELSE pc' = "init_set" /\ UNCHANGED err
    /\ UNCHANGED <<acct, clock, saved, tx, sw, txCount, calc>>

\* lines 21-46; the vaults were created by the token program just before,
\* so the two owner checks pass
initialize_pool_check ==
    /\ pc = "init_check"
    /\ IF ~(name_len(tx.pool_name) # 0 /\ name_len(tx.pool_name) <= 32)
       THEN Fail("InvalidPoolName")
       ELSE IF ~(tx.initial_x_amount > 0 /\ tx.initial_y_amount > 0)
       THEN Fail("InvalidPoolName")
       ELSE IF ~(tokens["trader"].x >= tx.initial_x_amount)
       THEN Fail("InsufficientLiquidity")
       ELSE IF ~(tokens["trader"].y >= tx.initial_y_amount)
       THEN Fail("InsufficientLiquidity")
       ELSE pc' = "init_transfer_x" /\ UNCHANGED err
    /\ UNCHANGED <<acct, clock, saved, tx, sw, txCount, calc>>

\* lines 48-73: token::transfer(initializer -> vault) of one asset
initialize_pool_transfer(side, amount, next) ==
    /\ IF tokens["trader"][side] >= amount
       THEN /\ tokens' = [tokens EXCEPT !["trader"][side] = @ - amount]
            /\ vaults' = [vaults EXCEPT ![tx.pool_name][side] = @ + amount]
            /\ pc' = next
            /\ UNCHANGED err
       ELSE /\ UNCHANGED <<tokens, vaults>>
            /\ Fail("TokenInsufficientFunds")
    /\ UNCHANGED <<pool_state, lamports, dex, arbitrage_bot, records,
                   dex_trade_state, clock, saved, tx, sw, txCount, calc>>

initialize_pool_transfer_x ==
    /\ pc = "init_transfer_x"
    /\ initialize_pool_transfer("x", tx.initial_x_amount, "init_transfer_y")

initialize_pool_transfer_y ==
    /\ pc = "init_transfer_y"
    /\ initialize_pool_transfer("y", tx.initial_y_amount, "init_set")

\* lines 75-90
initialize_pool_set ==
    /\ pc = "init_set"
    /\ dex' = [dex EXCEPT ![tx.pool_name] =
                  [x_balance |-> tx.initial_x_amount,
                   y_balance |-> tx.initial_y_amount]]
    /\ Commit
    /\ UNCHANGED <<pool_state, lamports, vaults, tokens, arbitrage_bot, records,
                   dex_trade_state, clock, saved, tx, sw, txCount, calc>>

-----------------------------------------------------------------------------
(* mock_dex: execute_trade_from_state *)

\* can_execute answering true for a trade that was already carried out
can_execute_completed_too(t) == t.status \in {"Pending", "Completed"}

\* DexTradeState::can_execute
can_execute(t) == t.status = "Pending"

\* the accounts of the instruction: dex_trade_state sits at the address
\* seeded by trade_id
execute_trade_begin(trade_id, pool_name) ==
    /\ Submit([NoTx EXCEPT !.ix = "execute_trade_from_state",
                           !.trade_id = trade_id, !.pool_name = pool_name])
    /\ IF trade_id \in DOMAIN dex_trade_state
       THEN pc' = "trade_validate" /\ UNCHANGED err
       ELSE Fail("AccountNotInitialized")
    /\ UNCHANGED <<acct, sw>>

\* lines 102-113
execute_trade_validate ==
    /\ pc = "trade_validate"
    /\ LET t == dex_trade_state[tx.trade_id]
       IN  IF ~can_execute(t)
           THEN /\ Fail("InvalidTradeStatus")
                /\ UNCHANGED dex_trade_state
           ELSE IF t.trade_id # tx.trade_id
           THEN /\ Fail("InvalidTradeId")
                /\ UNCHANGED dex_trade_state
           ELSE /\ dex_trade_state' =
                      [dex_trade_state EXCEPT ![tx.trade_id].status = "Executing"]
                /\ pc' = "trade_settle"
                /\ UNCHANGED err
    /\ UNCHANGED <<pool_state, lamports, dex, vaults, tokens, arbitrage_bot,
                   records, clock, saved, tx, sw, txCount, calc>>

\* the settlement answering Ok when the pool cannot pay, with nothing more
\* written
execute_trade_settle_soft_fail ==
    /\ pc = "trade_settle"
    /\ LET t == dex_trade_state[tx.trade_id]
           c == swap_checks(dex[tx.pool_name], TRUE, t.amount_in, 0)
           u == swap_update(dex[tx.pool_name], TRUE, t.amount_in, c.amount_out)
       IN  IF c.err = "Ok" /\ u.err = "Ok"
           THEN /\ dex' = [dex EXCEPT ![tx.pool_name] = u.pool]
                /\ dex_trade_state' =
                      [dex_trade_state EXCEPT
                          ![tx.trade_id].actual_amount_out = c.amount_out,
                          ![tx.trade_id].status = "Completed"]
                /\ Commit
           ELSE /\ UNCHANGED <<dex, dex_trade_state>>
                /\ Commit
    /\ UNCHANGED <<pool_state, lamports, vaults, tokens, arbitrage_bot, records,
                   clock, saved, tx, sw, txCount, calc>>

\* lines 115-148: the price and the liquidity check are those of swap with
\* X as the input and no minimum; no token moves
execute_trade_settle ==
    /\ pc = "trade_settle"
    /\ LET t == dex_trade_state[tx.trade_id]
           c == swap_checks(dex[tx.pool_name], TRUE, t.amount_in, 0)
           u == swap_update(dex[tx.pool_name], TRUE, t.amount_in, c.amount_out)
       IN  IF c.err # "Ok"
           THEN /\ Fail(c.err)
                /\ UNCHANGED <<dex, dex_trade_state>>
           ELSE IF u.err # "Ok"
           THEN /\ Fail(u.err)
                /\ UNCHANGED <<dex, dex_trade_state>>
           ELSE /\ dex' = [dex EXCEPT ![tx.pool_name] = u.pool]
                /\ dex_trade_state' =
                      [dex_trade_state EXCEPT
                          ![tx.trade_id].actual_amount_out = c.amount_out,
                          ![tx.trade_id].status = "Completed"]
                /\ Commit
    /\ UNCHANGED <<pool_state, lamports, vaults, tokens, arbitrage_bot, records,
                   clock, saved, tx, sw, txCount, calc>>

-----------------------------------------------------------------------------
(* arbitrage_bot: execute_arbitrage_atomic *)

\* the instruction as a transaction of its own
arbitrage_begin(loan_amount, min_expected_profit, tin) ==
    /\ Submit([NoTx EXCEPT !.ix = "arbitrage", !.amount = loan_amount,
                           !.min_expected_profit = min_expected_profit,
                           !.tin = tin])
    /\ pc' = "arb_validate"
    /\ UNCHANGED <<acct, sw, err>>

\* the entry of the call without the trade counter
arbitrage_enter_no_count(t, loan_amount, min_expected_profit) ==
    LET v == validate_inputs(arbitrage_bot, loan_amount, min_expected_profit)
    IN  IF v = "Ok"
        THEN /\ arbitrage_bot' = [arbitrage_bot EXCEPT !.is_executing = TRUE]
             /\ tx' = [t EXCEPT !.amount = loan_amount,
                                !.min_expected_profit = min_expected_profit,
                                !.cache = tokens["bot"],
                                !.validated = TRUE]
             /\ pc' = "arb_first_swap"
             /\ UNCHANGED err
        ELSE /\ UNCHANGED <<arbitrage_bot, tx>>
             /\ Fail(v)

\* lines 18-26 for a call with the given arguments: validate_inputs, then
\* is_executing = true and total_trades += 1.  The token accounts of the
\* call's context are deserialised on entry; t.cache is that copy.
arbitrage_enter(t, loan_amount, min_expected_profit) ==
    LET v == validate_inputs(arbitrage_bot, loan_amount, min_expected_profit)
    IN  IF v = "Ok"
        THEN /\ arbitrage_bot' = [arbitrage_bot EXCEPT
                                     !.is_executing = TRUE,
                                     !.total_trades = @ + 1]
             /\ tx' = [t EXCEPT !.amount = loan_amount,
                                !.min_expected_profit = min_expected_profit,
                                !.cache = tokens["bot"],
                                !.validated = TRUE]
             /\ pc' = "arb_first_swap"
             /\ UNCHANGED err
        ELSE /\ UNCHANGED <<arbitrage_bot, tx>>
             /\ Fail(v)

arbitrage_validate ==
    /\ pc = "arb_validate"
    /\ arbitrage_enter(tx, tx.amount, tx.min_expected_profit)
    /\ UNCHANGED <<pool_state, lamports, dex, vaults, tokens, records, dex_trade_state,
                   clock, saved, sw, txCount, calc>>

\* a second execute_arbitrage_atomic call on the same session, arriving
\* while the first one is inside one of its swaps
InFlight == pc \in SwapSteps /\ tx.ix \in {"arbitrage", "flash_loan"}

arbitrage_nested_call(loan_amount, min_expected_profit) ==
    /\ InFlight
    /\ arbitrage_enter([tx EXCEPT !.validated = FALSE],
                       loan_amount, min_expected_profit)
    /\ UNCHANGED <<pool_state, lamports, dex, vaults, tokens, records, dex_trade_state,
                   clock, saved, sw, txCount, calc>>

\* the CPI into mock_dex::swap with the bot's accounts
call_swap(name, tin, amount_in, ret) ==
    LET m == calculate_min_amount_out(BigFromNat(amount_in))
    IN  IF m.ok
        THEN /\ sw' = [pool |-> name, holder |-> "bot", tin |-> tin,
                       amount_in |-> amount_in,
                       min_amount_out |-> BigToNat(m.val),
                       amount_out |-> 0, ret |-> ret, before |-> dex[name],
                       vault_before |-> vaults[name],
                       holder_before |-> tokens["bot"]]
             /\ pc' = "swap_check"
             /\ UNCHANGED err
        ELSE /\ UNCHANGED sw
             /\ Fail(m.err)

\* execute_first_swap, lines 80-95: pool A, token_in_account, loan_amount
execute_first_swap ==
    /\ pc = "arb_first_swap"
    /\ call_swap("A", tx.tin, tx.amount, "arb_second_swap")
    /\ UNCHANGED <<acct, clock, saved, tx, txCount, calc>>

\* execute_first_swap, lines 97-99: the result is user_token_y.amount of the
\* context, which no reload() has refreshed since entry;
\* execute_second_swap, lines 107-122: pool B, user_token_y, that result
execute_second_swap ==
    /\ pc = "arb_second_swap"
    /\ LET first_result == tx.cache.y
       IN  /\ tx' = [tx EXCEPT !.first_result = first_result]
           /\ call_swap("B", "y", first_result, "arb_finish")
    /\ UNCHANGED <<acct, clock, saved, txCount, calc>>

\* execute_second_swap, lines 124-126, and execute_arbitrage_atomic,
\* lines 36-49
arbitrage_finish ==
    /\ pc = "arb_finish"
    /\ LET second_result == tx.cache.x
           actual_profit == saturating_sub(second_result, tx.amount)
       IN  /\ tx' = [tx EXCEPT !.second_result = second_result,
                               !.profit = actual_profit]
           /\ IF actual_profit >= tx.min_expected_profit
              THEN /\ arbitrage_bot' = [arbitrage_bot EXCEPT
                                           !.total_profit = @ + actual_profit,
                                           !.is_executing = FALSE]
                   /\ IF tx.ix = "flash_loan"
                      THEN pc' = "fl_repay_check" /\ UNCHANGED err
                      ELSE Commit
              ELSE /\ UNCHANGED arbitrage_bot
                   /\ Fail("InsufficientProfit")
    /\ UNCHANGED <<pool_state, lamports, dex, vaults, tokens, records, dex_trade_state,
                   clock, saved, sw, txCount, calc>>

-----------------------------------------------------------------------------
(* flash-loan: atomic_flash_loan_with_arbitrage *)

\* the address of a record account: the seeds it was created with
RecordAddress(r) == <<"transaction_record", r.user, r.timestamp>>

\* the accounts of the instruction with init_if_needed in place of init
flash_loan_begin_init_if_needed(amount, min_expected_profit, tin) ==
    /\ Submit([NoTx EXCEPT !.ix = "flash_loan", !.amount = amount,
                           !.min_expected_profit = min_expected_profit,
                           !.tin = tin])
    /\ IF ~PoolExists
       THEN Fail("AccountNotInitialized")
       ELSE pc' = "fl_validate" /\ UNCHANGED err
    /\ UNCHANGED <<acct, sw>>

\* the accounts of the instruction: transaction_record is `init` at the
\* address seeded by the borrower and the clock, which fails when that
\* account exists already
flash_loan_begin(amount, min_expected_profit, tin) ==
    /\ Submit([NoTx EXCEPT !.ix = "flash_loan", !.amount = amount,
                           !.min_expected_profit = min_expected_profit,
                           !.tin = tin])
    /\ IF ~PoolExists
       THEN Fail("AccountNotInitialized")
       ELSE IF \E r \in records : r.user = "borrower" /\ r.timestamp = clock
       THEN Fail("AccountAlreadyInUse")
       ELSE pc' = "fl_validate" /\ UNCHANGED err
    /\ UNCHANGED <<acct, sw>>

\* validate_and_prepare
flash_validate_and_prepare ==
    /\ pc = "fl_validate"
    /\ LET v == validate_and_prepare(pool_state, tx.amount)
       IN  IF v.err = "Ok"
           THEN /\ tx' = [tx EXCEPT !.fee = v.fee]
                /\ pc' = "fl_loan_state"
                /\ UNCHANGED err
           ELSE /\ UNCHANGED tx
                /\ Fail(v.err)
    /\ UNCHANGED <<acct, clock, saved, sw, txCount, calc>>

\* execute_loan moving the lamports first and leaving the ledger for later
execute_loan_state_transfer_first ==
    /\ pc = "fl_loan_state"
    /\ lamports.pool >= tx.amount
    /\ lamports' = [lamports EXCEPT !.pool = @ - tx.amount,
                                    !.borrower = @ + tx.amount]
    /\ pc' = "fl_loan_transfer"
    /\ UNCHANGED <<pool_state, dex, vaults, tokens, arbitrage_bot, records,
                   dex_trade_state, clock, saved, tx, sw, err, txCount, calc>>

\* execute_loan counting the loan without taking it off the balance
execute_loan_state_no_debit ==
    /\ pc = "fl_loan_state"
    /\ pool_state' = [pool_state EXCEPT !.total_borrowed = @ + tx.amount]
    /\ pc' = "fl_loan_transfer"
    /\ UNCHANGED <<lamports, dex, vaults, tokens, arbitrage_bot, records,
                   dex_trade_state, clock, saved, tx, sw, err, txCount, calc>>

\* execute_loan, lines 91-94: the ledger
execute_loan_state ==
    /\ pc = "fl_loan_state"
    /\ pool_state' = [pool_state EXCEPT !.balance = @ - tx.amount,
                                        !.total_borrowed = @ + tx.amount]
    /\ pc' = "fl_loan_transfer"
    /\ UNCHANGED <<lamports, dex, vaults, tokens, arbitrage_bot, records, dex_trade_state,
                   clock, saved, tx, sw, err, txCount, calc>>

\* execute_loan handing over to the repayment instead of the arbitrage
execute_loan_transfer_then_repay ==
    /\ pc = "fl_loan_transfer"
    /\ lamports.pool >= tx.amount
    /\ lamports' = [lamports EXCEPT !.pool = @ - tx.amount,
                                    !.borrower = @ + tx.amount]
    /\ pc' = "fl_repay_check"
    /\ UNCHANGED <<pool_state, dex, vaults, tokens, arbitrage_bot, records, dex_trade_state,
                   clock, saved, tx, sw, err, txCount, calc>>

\* execute_loan, lines 98-103: the lamports.  The pool account holds at
\* least its ledger balance, so the subtraction cannot go below zero.
execute_loan_transfer ==
    /\ pc = "fl_loan_transfer"
    /\ lamports.pool >= tx.amount
    /\ lamports' = [lamports EXCEPT !.pool = @ - tx.amount,
                                    !.borrower = @ + tx.amount]
    /\ pc' = "arb_validate"
    /\ UNCHANGED <<pool_state, dex, vaults, tokens, arbitrage_bot, records, dex_trade_state,
                   clock, saved, tx, sw, err, txCount, calc>>

\* process_repayment without the check of the borrower's funds
process_repayment_unchecked ==
    /\ pc = "fl_repay_check"
    /\ pc' = "fl_repay_state"
    /\ UNCHANGED <<acct, clock, saved, tx, sw, err, txCount, calc>>

\* process_repayment comparing the borrower's funds with the principal only
process_repayment_check_principal_only ==
    /\ pc = "fl_repay_check"
    /\ IF lamports.borrower >= tx.amount
       THEN pc' = "fl_repay_state" /\ UNCHANGED err
       ELSE Fail("InsufficientFundsForRepayment")
    /\ UNCHANGED <<acct, clock, saved, tx, sw, txCount, calc>>

\* process_repayment, lines 154-160
process_repayment_check ==
    /\ pc = "fl_repay_check"
    /\ LET total_repayment == tx.amount + tx.fee
       IN  IF lamports.borrower >= total_repayment
           THEN pc' = "fl_repay_state" /\ UNCHANGED err
           ELSE Fail("InsufficientFundsForRepayment")
    /\ UNCHANGED <<acct, clock, saved, tx, sw, txCount, calc>>

\* the ledger update of process_repayment crediting the principal only
process_repayment_state_no_fee ==
    /\ pc = "fl_repay_state"
    /\ pool_state' = [pool_state EXCEPT !.balance = @ + tx.amount,
                                        !.total_repaid = @ + tx.amount]
    /\ pc' = "fl_repay_transfer"
    /\ UNCHANGED <<lamports, dex, vaults, tokens, arbitrage_bot, records, dex_trade_state,
                   clock, saved, tx, sw, err, txCount, calc>>

\* process_repayment, lines 162-165: the ledger
process_repayment_state ==
    /\ pc = "fl_repay_state"
    /\ LET total_repayment == tx.amount + tx.fee
       IN  pool_state' = [pool_state EXCEPT !.balance = @ + total_repayment,
                                            !.total_repaid = @ + total_repayment]
    /\ pc' = "fl_repay_transfer"
    /\ UNCHANGED <<lamports, dex, vaults, tokens, arbitrage_bot, records, dex_trade_state,
                   clock, saved, tx, sw, err, txCount, calc>>

\* process_repayment, lines 169-174: the lamports
process_repayment_transfer ==
    /\ pc = "fl_repay_transfer"
    /\ LET total_repayment == tx.amount + tx.fee
       IN  lamports' = [lamports EXCEPT !.pool = @ + total_repayment,
                                        !.borrower = @ - total_repayment]
    /\ pc' = "fl_record"
    /\ UNCHANGED <<pool_state, dex, vaults, tokens, arbitrage_bot, records, dex_trade_state,
                   clock, saved, tx, sw, err, txCount, calc>>

\* record_transaction with a plain subtraction for net_profit
record_transaction_plain_sub ==
    /\ pc = "fl_record"
    /\ LET new == [transaction_id |-> clock, user |-> "borrower",
                   loan_amount |-> tx.amount, fee |-> tx.fee,
                   profit |-> tx.profit,
                   net_profit |-> tx.profit - tx.fee,
                   timestamp |-> clock]
       IN  records' = {r \in records : RecordAddress(r) # RecordAddress(new)}
                        \cup {new}
    /\ Commit
    /\ UNCHANGED <<pool_state, lamports, dex, vaults, tokens, arbitrage_bot,
                   dex_trade_state, clock, saved, tx, sw, txCount, calc>>

\* record_transaction writes the account at the address of this
\* transaction; then Ok(()) of the instruction
record_transaction ==
    /\ pc = "fl_record"
    /\ LET new == [transaction_id |-> clock, user |-> "borrower",
                   loan_amount |-> tx.amount, fee |-> tx.fee,
                   profit |-> tx.profit,
                   net_profit |-> saturating_sub(tx.profit, tx.fee),
                   timestamp |-> clock]
       IN  records' = {r \in records : RecordAddress(r) # RecordAddress(new)}
                        \cup {new}
    /\ Commit
    /\ UNCHANGED <<pool_state, lamports, dex, vaults, tokens, arbitrage_bot,
                   dex_trade_state, clock, saved, tx, sw, txCount, calc>>

\* get_transaction_record(user): the account passed must sit at the address
\* seeded by the user alone, and no instruction creates an account there;
\* the handler reads the record and writes nothing
get_transaction_record(user) ==
    /\ Submit([NoTx EXCEPT !.ix = "get_transaction_record"])
    /\ LET found == {r \in records :
                        RecordAddress(r) = <<"transaction_record", user>>}
       IN  IF found = {}
           THEN Fail("AccountNotInitialized")
           ELSE IF \A r \in found : r.user = user
                THEN Commit
                ELSE Fail("UnauthorizedAccess")
    /\ UNCHANGED <<acct, sw>>

-----------------------------------------------------------------------------
Next ==
    \/ \E a \in LoanAmounts, m \in ProfitFloors, t \in TokenSides :
          flash_loan_begin(a, m, t)
    \/ flash_validate_and_prepare
    \/ execute_loan_state
    \/ execute_loan_transfer
    \/ \E a \in LoanAmounts, m \in ProfitFloors, t \in TokenSides :
          arbitrage_begin(a, m, t)
    \/ arbitrage_validate
    \/ \E a \in {10}, m \in {1} : arbitrage_nested_call(a, m)
    \/ execute_first_swap
    \/ execute_second_swap
    \/ arbitrage_finish
    \/ process_repayment_check
    \/ process_repayment_state
    \/ process_repayment_transfer
    \/ record_transaction
    \/ \E u \in Users : get_transaction_record(u)
    \/ \E n \in PoolNames, t \in TokenSides, a \in SwapAmounts, m \in MinAmountsOut :
          swap_begin(n, t, a, m)
    \/ swap_check
    \/ swap_transfer_in
    \/ swap_update_reserves
    \/ swap_transfer_out
    \/ \E s \in Signers : emergency_pause(s)
    \/ \E s \in Signers : resume_pool(s)
    \/ HostAbort
    \/ Tick

Spec == Init /\ [][Next]_vars


-----------------------------------------------------------------------------
(* All instructions together: those of Next, and initialize_pool and       *)
(* execute_trade_from_state of mock_dex.                                    *)

InitializePoolInputs ==
    {<<"", 5, 5>>, <<"C", 0, 5>>, <<"C", 5, 50>>, <<"C", 5, 5>>,
     <<"A", 5, 5>>, <<LongPoolName, 5, 5>>}

TradeInputs == {<<1, "A">>, <<2, "A">>, <<3, "A">>}

\* <<loan amount, profit floor, input side>> of the flash loans and of the
\* stand-alone arbitrage calls
AllLoanInputs == {<<10, 1, "x">>, <<20, 1, "x">>, <<20, 5, "x">>, <<50, 1, "x">>}
AllArbitrageInputs ==
    {<<10, 1, "x">>, <<0, 1, "x">>, <<10, 0, "x">>, <<0, 0, "x">>, <<50, 1, "x">>}

\* <<loan amount, profit floor>> of the calls that arrive during a swap
NestedInputs == {<<10, 1>>, <<0, 1>>, <<10, 0>>}

\* <<pool, input side, amount_in, min_amount_out>>; the third asks pool A
\* for more X than its vault holds once a trade has been settled on it
AllSwapInputs ==
    {<<"A", "x", 10, 0>>, <<"A", "x", 10, 10>>, <<"A", "y", 30, 0>>,
     <<"B", "y", 0, 0>>}

NextDex ==
    \/ \E i \in InitializePoolInputs : initialize_pool_begin(i[1], i[2], i[3])
    \/ initialize_pool_check
    \/ initialize_pool_transfer_x
    \/ initialize_pool_transfer_y
    \/ initialize_pool_set
    \/ \E t \in TradeInputs : execute_trade_begin(t[1], t[2])
    \/ execute_trade_validate
    \/ execute_trade_settle

NextAll ==
    \/ \E i \in AllLoanInputs : flash_loan_begin(i[1], i[2], i[3])
    \/ flash_validate_and_prepare
    \/ execute_loan_state
    \/ execute_loan_transfer
    \/ \E i \in AllArbitrageInputs : arbitrage_begin(i[1], i[2], i[3])
    \/ arbitrage_validate
    \/ \E i \in NestedInputs : arbitrage_nested_call(i[1], i[2])
    \/ execute_first_swap
    \/ execute_second_swap
    \/ arbitrage_finish
    \/ process_repayment_check
    \/ process_repayment_state
    \/ process_repayment_transfer
    \/ record_transaction
    \/ \E u \in Users : get_transaction_record(u)
    \/ \E i \in AllSwapInputs : swap_begin(i[1], i[2], i[3], i[4])
    \/ swap_check
    \/ swap_transfer_in
    \/ swap_update_reserves
    \/ swap_transfer_out
    \/ \E s \in Signers : emergency_pause(s)
    \/ \E s \in Signers : resume_pool(s)
    \/ HostAbort
    \/ Tick
    \/ NextDex

SpecAll == Init /\ [][NextAll]_vars

-----------------------------------------------------------------------------
(* The loan pool from before its creation: initialize of mock_pool and the  *)
(* instructions that read or write pool_state.                              *)

\* nobody has paid anything yet
BootLamports == [pool |-> 0, borrower |-> 2, admin |-> 50, mallory |-> 50]

\* <<signer, initial_balance, fee_bps>>; fee_bps is a u16
InitializeInputs ==
    {<<s, b, f>> : s \in Signers, b \in {0, 40, 60},
                   f \in {DEX_FEE_BPS, MAX_POOL_FEE_BPS,
                          MAX_POOL_FEE_BPS + 1, 65535}}

InitBoot ==
    /\ pool_state = ZeroPoolState
    /\ lamports = BootLamports
    /\ dex = InitDex
    /\ vaults = InitVaults
    /\ tokens = InitTokens
    /\ arbitrage_bot = InitBot
    /\ records = {}
    /\ dex_trade_state = InitTrades
    /\ clock = 0
    /\ saved = Accounts
    /\ pc = "idle"
    /\ tx = NoTx
    /\ sw = NoSwap
    /\ err = "none"
    /\ txCount = 0
    /\ calc = NoCalc

NextBoot ==
    \/ \E i \in InitializeInputs : initialize_begin(i[1], i[2], i[3])
    \/ initialize_set
    \/ initialize_transfer
    \/ \E s \in Signers : emergency_pause(s)
    \/ \E s \in Signers : resume_pool(s)
    \/ \E i \in AllLoanInputs : flash_loan_begin(i[1], i[2], i[3])
    \/ flash_validate_and_prepare
    \/ execute_loan_state
    \/ execute_loan_transfer
    \/ arbitrage_validate
    \/ \E i \in NestedInputs : arbitrage_nested_call(i[1], i[2])
    \/ execute_first_swap
    \/ execute_second_swap
    \/ swap_check
    \/ swap_transfer_in
    \/ swap_update_reserves
    \/ swap_transfer_out
    \/ arbitrage_finish
    \/ process_repayment_check
    \/ process_repayment_state
    \/ process_repayment_transfer
    \/ record_transaction
    \/ HostAbort
    \/ Tick

SpecBoot == InitBoot /\ [][NextBoot]_vars

-----------------------------------------------------------------------------
(* The pure functions on their own, over the whole u64 range.              *)

\* u64 amounts: 0, 1, 9_999, 10_000, 1_000_000, 10^18,
\* floor(u64::MAX / 9970), that plus 1, floor(u64::MAX / 1000) + 1, u64::MAX
U64Samples ==
    {<<>>, <<1>>, <<9999>>, <<0, 1>>, <<0, 100>>, <<0, 0, 0, 0, 100>>,
     <<8811, 8261, 2250, 1850>>, <<8812, 8261, 2250, 1850>>,
     <<9552, 7370, 7440, 8446, 1>>, U64_MAX}

\* fee rates mock_pool::initialize accepts
FeeBpsSamples == {0, 1, DEX_FEE_BPS, 999, MAX_POOL_FEE_BPS}

\* reserves: 28, 1_000_000, 10^18
ReserveSamples == {<<28>>, <<0, 100>>, <<0, 0, 0, 0, 100>>}

CalcInputs ==
    {[NoCalc EXCEPT !.fn = "calculate_fee", !.amount = a, !.fee_bps = f] :
        a \in U64Samples, f \in FeeBpsSamples}
    \cup
    {[NoCalc EXCEPT !.fn = "swap_amount_out", !.amount = a,
                    !.reserve_in = r[1], !.reserve_out = r[2]] :
        a \in U64Samples, r \in ReserveSamples \X ReserveSamples}
    \cup
    {[NoCalc EXCEPT !.fn = "calculate_min_amount_out", !.amount = a] :
        a \in U64Samples}

InitMath ==
    /\ InitAccounts
    /\ clock = 0
    /\ saved = Accounts
    /\ pc = "idle"
    /\ tx = NoTx
    /\ sw = NoSwap
    /\ err = "none"
    /\ txCount = 0
    /\ calc \in CalcInputs

apply_calculate_fee ==
    /\ calc.fn = "calculate_fee" /\ ~calc.done
    /\ calc' = [calc EXCEPT !.done = TRUE,
                            !.res = calculate_fee(calc.amount, calc.fee_bps)]
    /\ UNCHANGED <<acct, clock, saved, pc, tx, sw, err, txCount>>

apply_swap_amount_out ==
    /\ calc.fn = "swap_amount_out" /\ ~calc.done
    /\ calc' = [calc EXCEPT !.done = TRUE,
                            !.res = swap_amount_out(calc.amount)]
    /\ UNCHANGED <<acct, clock, saved, pc, tx, sw, err, txCount>>

apply_calculate_min_amount_out ==
    /\ calc.fn = "calculate_min_amount_out" /\ ~calc.done
    /\ calc' = [calc EXCEPT !.done = TRUE,
                            !.res = calculate_min_amount_out(calc.amount)]
    /\ UNCHANGED <<acct, clock, saved, pc, tx, sw, err, txCount>>

NextMath ==
    \/ apply_calculate_fee
    \/ apply_swap_amount_out
    \/ apply_calculate_min_amount_out

SpecMath == InitMath /\ [][NextMath]_vars

-----------------------------------------------------------------------------
(* The ledgers at their full width: one atomic flash loan with the pool's   *)
(* and the bot's u64 counters as Big numbers.  `+`, `+=` and `-=` on u64    *)
(* panic on overflow when the programs are built with overflow checks and   *)
(* wrap modulo 2^64 when they are built without; src/ does not say which.   *)

NearMax(k) == BigSub(U64_MAX, BigFromNat(k))

\* a + b as the build compiles it
plain_add(a, b) ==
    LET s == BigAdd(a, b)
    IN  IF BigLeq(s, U64_MAX) THEN {Ok(s)}
        ELSE {Fails("ProgramFailedToComplete"), Ok(AsU64(s))}

\* a - b as the build compiles it
plain_sub(a, b) ==
    IF BigLeq(b, a) THEN {Ok(BigSub(a, b))}
    ELSE {Fails("ProgramFailedToComplete"),
          Ok(BigSub(BigAdd(a, BigAdd(U64_MAX, <<1>>)), b))}

\* <<balance, total_borrowed, total_repaid, seed>> between two transactions:
\* a fresh pool seeded 40; the same pool after loans of u64::MAX - 5 in all
\* at fee 0; the same pool after loans of u64::MAX - 30 in all that paid 10
\* in fees; a fresh pool seeded 10^18
LedgerSamples ==
    {<<<<40>>, <<>>, <<>>, <<40>>>>,
     <<<<40>>, NearMax(5), NearMax(5), <<40>>>>,
     <<<<50>>, NearMax(30), NearMax(20), <<40>>>>,
     <<<<0, 0, 0, 0, 100>>, <<>>, <<>>, <<0, 0, 0, 0, 100>>>>}

\* total_profit of the bot before the call
ProfitSamples == {<<>>, NearMax(3)}

LedgerInputs ==
    {[fn |-> "atomic_flash_loan_with_arbitrage", phase |-> "validate",
      pool |-> [balance |-> l[1], total_borrowed |-> l[2],
                total_repaid |-> l[3], fee_bps |-> f],
      bot |-> [total_trades |-> <<7>>, total_profit |-> p],
      initial_balance |-> l[4], borrower |-> <<2>>, amount |-> a, fee |-> <<>>, profit |-> <<5>>,
      err |-> "none", done |-> FALSE] :
        l \in LedgerSamples, p \in ProfitSamples,
        f \in {0, MAX_POOL_FEE_BPS}, a \in {<<10>>, <<20>>, <<60>>}}

InitLedger ==
    /\ InitAccounts
    /\ clock = 0
    /\ saved = Accounts
    /\ pc = "idle"
    /\ tx = NoTx
    /\ sw = NoSwap
    /\ err = "none"
    /\ txCount = 0
    /\ calc \in LedgerInputs

LedgerAbort(e) == calc' = [calc EXCEPT !.phase = "aborted", !.err = e, !.done = TRUE]

\* flash-loan lines 70-81, on an Active pool
u64_validate_and_prepare ==
    /\ calc.fn = "atomic_flash_loan_with_arbitrage" /\ calc.phase = "validate"
    /\ LET fee == calculate_fee(calc.amount, calc.pool.fee_bps)
       IN  IF ~fee.ok THEN LedgerAbort(fee.err)
           ELSE IF ~BigLeq(calc.amount, calc.pool.balance)
           THEN LedgerAbort("InsufficientPoolBalance")
           ELSE calc' = [calc EXCEPT !.phase = "execute_loan", !.fee = fee.val]
    /\ UNCHANGED <<acct, clock, saved, pc, tx, sw, err, txCount>>

\* flash-loan lines 93-100: balance -= amount; total_borrowed += amount;
\* the borrower receives the lamports
u64_execute_loan ==
    /\ calc.fn = "atomic_flash_loan_with_arbitrage" /\ calc.phase = "execute_loan"
    /\ \E b \in plain_sub(calc.pool.balance, calc.amount),
          t \in plain_add(calc.pool.total_borrowed, calc.amount) :
          IF ~b.ok \/ ~t.ok
          THEN LedgerAbort("ProgramFailedToComplete")
          ELSE calc' = [calc EXCEPT !.phase = "arbitrage_enter",
                                    !.pool.balance = b.val,
                                    !.pool.total_borrowed = t.val,
                                    !.borrower = BigAdd(@, calc.amount)]
    /\ UNCHANGED <<acct, clock, saved, pc, tx, sw, err, txCount>>

\* arbitrage_bot line 25: total_trades += 1
u64_arbitrage_enter ==
    /\ calc.fn = "atomic_flash_loan_with_arbitrage" /\ calc.phase = "arbitrage_enter"
    /\ \E n \in plain_add(calc.bot.total_trades, <<1>>) :
          IF ~n.ok
          THEN LedgerAbort("ProgramFailedToComplete")
          ELSE calc' = [calc EXCEPT !.phase = "arbitrage_finish",
                                    !.bot.total_trades = n.val]
    /\ UNCHANGED <<acct, clock, saved, pc, tx, sw, err, txCount>>

\* arbitrage_bot line 44: total_profit += actual_profit
u64_arbitrage_finish ==
    /\ calc.fn = "atomic_flash_loan_with_arbitrage" /\ calc.phase = "arbitrage_finish"
    /\ \E p \in plain_add(calc.bot.total_profit, calc.profit) :
          IF ~p.ok
          THEN LedgerAbort("ProgramFailedToComplete")
          ELSE calc' = [calc EXCEPT !.phase = "process_repayment",
                                    !.bot.total_profit = p.val]
    /\ UNCHANGED <<acct, clock, saved, pc, tx, sw, err, txCount>>

\* flash-loan lines 152-171: total_repayment = amount + fee; the check of
\* the borrower's lamports; balance += total_repayment;
\* total_repaid += total_repayment; the lamports
u64_process_repayment ==
    /\ calc.fn = "atomic_flash_loan_with_arbitrage" /\ calc.phase = "process_repayment"
    /\ \E total \in plain_add(calc.amount, calc.fee) :
          IF ~total.ok
          THEN LedgerAbort("ProgramFailedToComplete")
          ELSE IF ~BigLeq(total.val, calc.borrower)
          THEN LedgerAbort("InsufficientFundsForRepayment")
          ELSE \E b \in plain_add(calc.pool.balance, total.val),
                  r \in plain_add(calc.pool.total_repaid, total.val) :
                  IF ~b.ok \/ ~r.ok
                  THEN LedgerAbort("ProgramFailedToComplete")
                  ELSE calc' = [calc EXCEPT !.phase = "returned",
                                            !.done = TRUE, !.err = "Ok",
                                            !.pool.balance = b.val,
                                            !.pool.total_repaid = r.val,
                                            !.borrower = BigSub(@, total.val)]
    /\ UNCHANGED <<acct, clock, saved, pc, tx, sw, err, txCount>>

NextLedger ==
    \/ u64_validate_and_prepare
    \/ u64_execute_loan
    \/ u64_arbitrage_enter
    \/ u64_arbitrage_finish
    \/ u64_process_repayment

SpecLedger == InitLedger /\ [][NextLedger]_vars


-----------------------------------------------------------------------------
(* One arbitrage at full scale: pool A seeded 1_000_000 / 1_000_000, pool B *)
(* seeded 1_000_000 / 1_050_000, execute_arbitrage_atomic(50_000, 100) on   *)
(* an idle session.  The holder's token accounts carry enough X for the     *)
(* loan amount and any amount of Y.                                         *)

ScenarioDex ==
    [A |-> [x_balance |-> 1000000, y_balance |-> 1000000],
     B |-> [x_balance |-> 1000000, y_balance |-> 1050000]]

ScenarioVaults ==
    [A |-> [x |-> 1000000, y |-> 1000000],
     B |-> [x |-> 1000000, y |-> 1050000]]

ScenarioArgs == [loan_amount |-> 50000, min_expected_profit |-> 100]

ScenarioHoldingsX == {50000, 50100, 60000}
ScenarioHoldingsY == {0, 49850, 2000000}

InitScenario ==
    /\ pool_state = InitPoolState
    /\ lamports = InitLamports
    /\ dex = ScenarioDex
    /\ vaults = ScenarioVaults
    /\ tokens \in {[bot |-> [x |-> hx, y |-> hy], trader |-> [x |-> 0, y |-> 0]] :
                      hx \in ScenarioHoldingsX, hy \in ScenarioHoldingsY}
    /\ arbitrage_bot = InitBot
    /\ records = {}
    /\ dex_trade_state = InitTrades
    /\ clock = 0
    /\ saved = Accounts
    /\ pc = "idle"
    /\ tx = NoTx
    /\ sw = NoSwap
    /\ err = "none"
    /\ txCount = 0
    /\ calc = NoCalc

NextScenario ==
    \/ arbitrage_begin(ScenarioArgs.loan_amount,
                       ScenarioArgs.min_expected_profit, "x")
    \/ arbitrage_validate
    \/ execute_first_swap
    \/ execute_second_swap
    \/ arbitrage_finish
    \/ swap_check
    \/ swap_transfer_in
    \/ swap_update_reserves
    \/ swap_transfer_out
    \/ HostAbort

SpecScenario == InitScenario /\ [][NextScenario]_vars

-----------------------------------------------------------------------------
(* Properties *)

\* floor(amount_in * 9970 / 10000) on model integers
FloorOut(amount_in) ==
    (amount_in * (BPS_DENOMINATOR - DEX_FEE_BPS)) \div BPS_DENOMINATOR

\* floor(amount * fee_bps / 10000) on model integers
FloorFee(amount, fee_bps) == (amount * fee_bps) \div BPS_DENOMINATOR

Product(p) == p.x_balance * p.y_balance
Sum(p) == p.x_balance + p.y_balance

\* the step is the successful return of the running swap
SwapReturns ==
    /\ pc = "swap_transfer_out"
    /\ pc' = IF sw.ret = "return" THEN "idle" ELSE sw.ret

\* C1: an execute_arbitrage_atomic call arriving while the session's
\* is_executing flag is true fails with ReentrancyDetected and leaves
\* is_executing, total_trades and total_profit as they were; it does not
\* proceed into the orchestration.
C1_ReentrantCallRejected ==
    [][ (/\ InFlight
         /\ arbitrage_bot.is_executing
         /\ \E a \in {10}, m \in {1} : arbitrage_nested_call(a, m))
        => (/\ pc' = "failed"
            /\ err' = "ReentrancyDetected"
            /\ arbitrage_bot' = arbitrage_bot) ]_vars

C1_Witness ==
    /\ pc = "failed"
    /\ err = "ReentrancyDetected"
    /\ arbitrage_bot.is_executing
    /\ arbitrage_bot.total_trades = saved.arbitrage_bot.total_trades + 1

\* C2: whenever an execute_arbitrage_atomic call that passed validation
\* returns, with a profit or with the error of swap 1, swap 2 or the profit
\* check, the session's is_executing flag is false.
C2_FlagClearedOnEveryReturn ==
    /\ (pc = "failed" /\ tx.validated /\ err # "ReentrancyDetected")
          => ~arbitrage_bot.is_executing
    /\ (pc = "fl_repay_check") => ~arbitrage_bot.is_executing
    /\ (pc = "idle" /\ tx.ix = "arbitrage" /\ err = "Ok")
          => ~arbitrage_bot.is_executing

\* C3: when process_repayment finds the borrower's funds below amount + fee
\* it fails with InsufficientFundsForRepayment, and once the transaction has
\* concluded every account (loan pool, lamports, both DEX pools and vaults,
\* token holdings, session, records) holds its value from before the
\* transaction.
C3_FailedRepaymentLeavesNoTrace ==
    [][ /\ (pc = "fl_repay_check" /\ lamports.borrower < tx.amount + tx.fee)
            => (pc' = "failed" /\ err' = "InsufficientFundsForRepayment")
        /\ (pc = "failed" /\ err = "InsufficientFundsForRepayment" /\ pc' = "idle")
            => (/\ pool_state' = saved.pool_state
                /\ lamports' = saved.lamports
                /\ dex' = saved.dex
                /\ vaults' = saved.vaults
                /\ tokens' = saved.tokens
                /\ arbitrage_bot' = saved.arbitrage_bot
                /\ records' = saved.records
                /\ saved' = saved) ]_vars

C3_Witness ==
    /\ pc = "idle"
    /\ tx.ix = "flash_loan"
    /\ err = "InsufficientFundsForRepayment"
    /\ tx.profit > 0
    /\ Accounts = saved

C7_SlippageRejected ==
    [][ /\ (swap_check /\ FloorOut(sw.amount_in) < sw.min_amount_out)
            => (/\ pc' = "failed"
                /\ err' = "SlippageTooHigh"
                /\ dex' = dex /\ vaults' = vaults /\ tokens' = tokens
                /\ dex = saved.dex /\ vaults = saved.vaults
                /\ tokens = saved.tokens)
        /\ (pc = "failed" /\ err = "SlippageTooHigh" /\ pc' = "idle")
            => (dex' = saved.dex /\ vaults' = saved.vaults
                /\ tokens' = saved.tokens) ]_vars

C7_Witness ==
    /\ pc = "idle"
    /\ err = "SlippageTooHigh"
    /\ sw.amount_out < sw.min_amount_out
    /\ sw.amount_in > 0
    /\ Accounts = saved

\* C8: validate_and_prepare lets the coordinator go on to execute_loan only
\* when the pool's status is Active and its balance is at least amount; with
\* another status the call fails with PoolNotActive, with status Active and
\* balance < amount it fails with InsufficientPoolBalance, and the failing
\* call changes neither the pool's balance and total_borrowed nor the
\* borrower's lamports.
C8_LendOnlyWhenActiveAndFunded ==
    [][ flash_validate_and_prepare =>
          LET active == pool_state.status = "Active"
              funded == pool_state.balance >= tx.amount
              untouched == /\ pool_state' = pool_state
                           /\ lamports' = lamports
                           /\ pool_state = saved.pool_state
                           /\ lamports = saved.lamports
          IN  /\ (~active) =>
                    (pc' = "failed" /\ err' = "PoolNotActive" /\ untouched)
              /\ (active /\ ~funded) =>
                    (pc' = "failed" /\ err' = "InsufficientPoolBalance" /\ untouched)
              /\ (active /\ funded) => pc' = "fl_loan_state" ]_vars

C8_Witness ==
    /\ pc = "failed"
    /\ tx.ix = "flash_loan"
    /\ err = "PoolNotActive"
    /\ pool_state.status = "Emergency"
    /\ pool_state.balance >= tx.amount

\* C9: in one atomic_flash_loan_with_arbitrage transaction the pool's
\* balance drops by exactly amount at issuance and rises by exactly
\* amount + fee at repayment, with fee = floor(amount * fee_bps / 10000);
\* after a successful transaction it is the balance from before the
\* transaction plus fee; and it is never below 0.
C9_BalanceAccounting ==
    /\ [](pool_state.balance >= 0)
    /\ []((pc = "idle" /\ tx.ix = "flash_loan" /\ err = "Ok") =>
            pool_state.balance = saved.pool_state.balance
                                   + FloorFee(tx.amount, pool_state.fee_bps))
    /\ [][ /\ execute_loan_state =>
                pool_state'.balance = pool_state.balance - tx.amount
           /\ process_repayment_state =>
                pool_state'.balance = pool_state.balance + tx.amount
                                        + FloorFee(tx.amount, pool_state.fee_bps)
           /\ (pc \in {"fl_loan_transfer", "arb_validate", "arb_first_swap",
                       "arb_second_swap", "arb_finish", "fl_repay_check",
                       "fl_repay_transfer", "fl_record"} \cup SwapSteps)
                => pool_state'.balance = pool_state.balance
                     \/ pc' = "idle" ]_vars

C9_Witness ==
    /\ pc = "idle" /\ tx.ix = "flash_loan" /\ err = "Ok"
    /\ tx.fee > 0
    /\ pool_state.balance = saved.pool_state.balance + tx.fee

\* C10: calculate_fee(amount) succeeds for every u64 amount and every
\* fee_bps <= 1000 and returns exactly floor(amount * fee_bps / 10000);
\* amount = 1_000_000 with fee_bps = 30 gives 3_000.
C10_FeeIsExactFloor ==
    (calc.fn = "calculate_fee" /\ calc.done) =>
        /\ calc.res.ok
        /\ IsFloorDiv(calc.res.val, BigMul(calc.amount, BigFromNat(calc.fee_bps)),
                      <<0, 1>>)
        /\ (calc.amount = <<0, 100>> /\ calc.fee_bps = 30)
              => calc.res.val = <<3000>>

C10_Witness ==
    /\ calc.fn = "calculate_fee" /\ calc.done
    /\ calc.amount = U64_MAX
    /\ calc.fee_bps = MAX_POOL_FEE_BPS
    /\ calc.res.ok
    /\ BigLess(U64_MAX, BigMulSmall(calc.amount, calc.fee_bps))

\* C11: emergency_pause and resume_pool succeed only when the signer is the
\* pool's stored authority; a call by anyone else returns InvalidAuthority
\* and leaves status and last_updated as they were.
C11_OnlyAuthorityChangesStatus ==
    tx.ix \in {"emergency_pause", "resume_pool"} =>
        LET before == saved.pool_state
            target == IF tx.ix = "emergency_pause" THEN "Emergency" ELSE "Active"
        IN  /\ (err = "Ok") <=> (tx.signer = before.authority)
            /\ tx.signer = before.authority =>
                   /\ pool_state.status = target
                   /\ pool_state = [before EXCEPT
                                       !.status = target,
                                       !.last_updated = pool_state.last_updated]
            /\ tx.signer # before.authority =>
                   /\ err = "InvalidAuthority"
                   /\ pool_state = before

\* a stranger's emergency_pause has just been refused, at a time when a
\* write of last_updated would have shown
C11_Witness ==
    /\ tx.ix = "emergency_pause"
    /\ tx.signer # pool_state.authority
    /\ pc = "failed"
    /\ err = "InvalidAuthority"
    /\ clock # pool_state.last_updated
    /\ pool_state.status = "Active"

\* what each step of the running flash loan has done to the accounts the
\* transaction started from
LoanIssued ==
    /\ pool_state.total_borrowed = saved.pool_state.total_borrowed + tx.amount
    /\ lamports.borrower + lamports.pool
          = saved.lamports.borrower + saved.lamports.pool

FirstSwapDone ==
    LET a == dex["A"]  b == saved.dex["A"]
    IN  IF tx.tin = "x" THEN a.x_balance = b.x_balance + tx.amount
                        ELSE a.y_balance = b.y_balance + tx.amount

SecondSwapDone ==
    dex["B"].y_balance = saved.dex["B"].y_balance + tx.first_result

ArbitrageReturnedProfit ==
    /\ FirstSwapDone
    /\ SecondSwapDone
    /\ ~arbitrage_bot.is_executing
    /\ arbitrage_bot.total_trades = saved.arbitrage_bot.total_trades + 1
    /\ arbitrage_bot.total_profit
          = saved.arbitrage_bot.total_profit + tx.profit
    /\ tx.profit >= tx.min_expected_profit

Repaid ==
    /\ pool_state.total_repaid
          = saved.pool_state.total_repaid + tx.amount + tx.fee
    /\ pool_state.balance = saved.pool_state.balance + tx.fee
    /\ lamports.pool = saved.lamports.pool + tx.fee
    /\ lamports.borrower = saved.lamports.borrower - tx.fee

\* C12: a flash loan runs fee calculation and lendability checks, loan
\* issuance, the two swaps of the arbitrage, repayment and record creation
\* in this order: repayment is attempted only after the arbitrage returned
\* a profit, and the record is written only after the repayment succeeded.
C12_StepsInOrder ==
    tx.ix = "flash_loan" =>
        /\ pc = "fl_loan_state" =>
               /\ tx.fee = FloorFee(tx.amount, pool_state.fee_bps)
               /\ can_lend(pool_state)
               /\ has_sufficient_funds(pool_state, tx.amount)
               /\ Accounts = saved
        /\ pc = "arb_validate" =>
               /\ LoanIssued
               /\ lamports.borrower = saved.lamports.borrower + tx.amount
               /\ arbitrage_bot = saved.arbitrage_bot
               /\ dex = saved.dex
        /\ (pc \in SwapSteps /\ sw.pool = "A") =>
               /\ LoanIssued
               /\ dex["B"] = saved.dex["B"]
        /\ (pc \in SwapSteps /\ sw.pool = "B") =>
               /\ LoanIssued
               /\ FirstSwapDone
        /\ pc = "fl_repay_check" =>
               /\ LoanIssued
               /\ ArbitrageReturnedProfit
               /\ pool_state.total_repaid = saved.pool_state.total_repaid
               /\ lamports.borrower = saved.lamports.borrower + tx.amount
        /\ pc = "fl_record" =>
               /\ LoanIssued
               /\ ArbitrageReturnedProfit
               /\ Repaid
               /\ records = saved.records
        /\ records # saved.records =>
               /\ pc = "idle" /\ err = "Ok"
               /\ LoanIssued
               /\ ArbitrageReturnedProfit
               /\ Repaid

\* a flash loan has run to its end and written its record
C12_Witness ==
    /\ tx.ix = "flash_loan"
    /\ pc = "idle" /\ err = "Ok"
    /\ records # saved.records
    /\ tx.fee > 0
    /\ tx.first_result > 0

\* the flash loan of tx has returned Ok
FlashLoanDone == tx.ix = "flash_loan" /\ pc = "idle" /\ err = "Ok"

\* C13: every TransactionRecord has net_profit = max(profit - fee, 0), hence
\* net_profit <= profit; its loan_amount, fee and profit are the amount of
\* the transaction, the fee computed by the prepare step and the profit the
\* arbitrage returned.
C13_RecordFields ==
    /\ \A r \in records :
           /\ r.net_profit = (IF r.profit > r.fee THEN r.profit - r.fee ELSE 0)
           /\ r.net_profit <= r.profit
    /\ FlashLoanDone =>
           \A r \in records \ saved.records :
               /\ r.loan_amount = tx.amount
               /\ r.fee = FloorFee(tx.amount, saved.pool_state.fee_bps)
               /\ r.profit = arbitrage_bot.total_profit
                                - saved.arbitrage_bot.total_profit
               /\ r.profit = tx.profit

\* a flash loan has just written a record whose profit is smaller than its
\* fee
C13_Witness ==
    /\ FlashLoanDone
    /\ \E r \in records \ saved.records :
           0 < r.profit /\ r.profit < r.fee /\ r.net_profit = 0

\* C14: a flash loan that returns Ok adds exactly one record, every other
\* call (a failed flash loan, get_transaction_record, any other
\* instruction) adds none, and no record once written is changed or
\* removed.
C14_OneRecordPerSuccess ==
    /\ saved.records \subseteq records
    /\ FlashLoanDone =>
           Cardinality(records) = Cardinality(saved.records) + 1
    /\ ~FlashLoanDone => records = saved.records

\* the borrower's second flash loan has written its record next to the
\* first one
C14_Witness ==
    /\ FlashLoanDone
    /\ saved.records # {}
    /\ Cardinality(records) = 2

\* C15: execute_arbitrage_atomic computes profit = max(x_final - loan_amount,
\* 0) with x_final the amount of X that swap 2 paid out, fails with
\* InsufficientProfit when profit < min_expected_profit, and otherwise adds
\* profit to total_profit and returns it.
C15_ProfitFromSwapTwoPayout ==
    [][arbitrage_finish =>
          LET x_final == sw.amount_out
              profit == IF x_final > tx.amount THEN x_final - tx.amount ELSE 0
          IN  IF profit < tx.min_expected_profit
              THEN pc' = "failed" /\ err' = "InsufficientProfit"
              ELSE /\ pc' # "failed"
                   /\ tx'.profit = profit
                   /\ arbitrage_bot'.total_profit
                         = arbitrage_bot.total_profit + profit]_vars

\* C16: the amount fed into swap 2 on pool B is exactly the amount of Y that
\* swap 1 paid out for loan_amount of X.
C16_SwapTwoInputIsSwapOnePayout ==
    [][execute_second_swap => sw'.amount_in = sw.amount_out]_vars

\* C17: with pool A at 1_000_000 / 1_000_000, pool B at 1_000_000 /
\* 1_050_000, loan_amount = 50_000 and min_expected_profit = 100 on an idle
\* session, the call either returns a profit of at least 100 or fails with
\* InsufficientProfit: no other error, and no returned profit below 100.
C17_OnlyTwoOutcomes ==
    (/\ tx.ix = "arbitrage"
     /\ tx.amount = ScenarioArgs.loan_amount
     /\ tx.min_expected_profit = ScenarioArgs.min_expected_profit
     /\ saved.dex = ScenarioDex
     /\ ~saved.arbitrage_bot.is_executing) =>
        /\ pc = "failed" => err = "InsufficientProfit"
        /\ (pc = "idle" /\ err = "Ok") =>
               tx.profit >= ScenarioArgs.min_expected_profit

\* the transaction of tx carries an execute_arbitrage_atomic call
HasArbitrage == tx.ix \in {"arbitrage", "flash_loan"}

TradesCounted ==
    arbitrage_bot.total_trades - saved.arbitrage_bot.total_trades

\* C18 as stated: every execute_arbitrage_atomic call that passed
\* validation has added exactly 1 to total_trades, and the increment is
\* still counted once the call is over, also when it failed in swap 1, in
\* swap 2 or in the profit check.
C18_IncrementSurvivesFailure ==
    (HasArbitrage /\ tx.validated /\ pc = "idle") => TradesCounted = 1

\* C18 amended: a call that passes validation adds exactly 1 to total_trades
\* on entry and a call that does not adds nothing; the increment is in the
\* session through both swaps and at the moment a later failure returns its
\* error, and is discarded with the other writes of the failed transaction,
\* so that only calls that return Ok remain counted.
C18_IncrementAtEntry ==
    HasArbitrage =>
        /\ (tx.validated /\ pc # "idle") => TradesCounted = 1
        /\ (tx.validated /\ pc = "idle" /\ err = "Ok") => TradesCounted = 1
        /\ (tx.validated /\ pc = "idle" /\ err # "Ok") => TradesCounted = 0
        /\ ~tx.validated => TradesCounted = 0

\* a call that passed validation has failed in the profit check and its
\* transaction is over
C18_Witness ==
    /\ HasArbitrage
    /\ tx.validated
    /\ pc = "idle"
    /\ err = "InsufficientProfit"
    /\ TradesCounted = 0

\* the instruction ix has returned Ok and its transaction is committed
Done(ix) == tx.ix = ix /\ pc = "idle" /\ err = "Ok"

\* the last instruction returned an error and its transaction is over
RolledBack == pc = "idle" /\ err \notin {"Ok", "none"}

SwapApplied ==
    LET in  == sw.amount_in
        out == sw.amount_out
    IN  /\ out = FloorOut(in)
        /\ Accounts =
             IF sw.tin = "x"
             THEN [saved EXCEPT
                     !.dex[sw.pool].x_balance = @ + in,
                     !.dex[sw.pool].y_balance = @ - out,
                     !.vaults[sw.pool].x = @ + in,
                     !.vaults[sw.pool].y = @ - out,
                     !.tokens[sw.holder].x = @ - in,
                     !.tokens[sw.holder].y = @ + out]
             ELSE [saved EXCEPT
                     !.dex[sw.pool].y_balance = @ + in,
                     !.dex[sw.pool].x_balance = @ - out,
                     !.vaults[sw.pool].y = @ + in,
                     !.vaults[sw.pool].x = @ - out,
                     !.tokens[sw.holder].y = @ - in,
                     !.tokens[sw.holder].x = @ + out]

TradeApplied ==
    LET t   == saved.dex_trade_state[tx.trade_id]
        out == FloorOut(t.amount_in)
    IN  /\ t.status = "Pending"
        /\ Accounts =
             [saved EXCEPT
                !.dex[tx.pool_name].x_balance = @ + t.amount_in,
                !.dex[tx.pool_name].y_balance = @ - out,
                !.dex_trade_state[tx.trade_id].status = "Completed",
                !.dex_trade_state[tx.trade_id].actual_amount_out = out]

PoolInitialized ==
    /\ tx.pool_name \notin DOMAIN saved.dex
    /\ DOMAIN dex = DOMAIN saved.dex \cup {tx.pool_name}
    /\ \A n \in DOMAIN saved.dex :
           dex[n] = saved.dex[n] /\ vaults[n] = saved.vaults[n]
    /\ dex[tx.pool_name] = [x_balance |-> tx.initial_x_amount,
                            y_balance |-> tx.initial_y_amount]
    /\ vaults[tx.pool_name] = [x |-> tx.initial_x_amount,
                               y |-> tx.initial_y_amount]
    /\ tokens = [saved.tokens EXCEPT
                    !["trader"].x = @ - tx.initial_x_amount,
                    !["trader"].y = @ - tx.initial_y_amount]
    /\ <<pool_state, lamports, arbitrage_bot, records, dex_trade_state>>
         = <<saved.pool_state, saved.lamports, saved.arbitrage_bot,
             saved.records, saved.dex_trade_state>>

ArbitrageApplied ==
    /\ ArbitrageReturnedProfit
    /\ \A s \in TokenSides :
           tokens["bot"][s] + vaults["A"][s] + vaults["B"][s]
             = saved.tokens["bot"][s] + saved.vaults["A"][s]
                 + saved.vaults["B"][s]
    /\ tokens["trader"] = saved.tokens["trader"]
    /\ dex_trade_state = saved.dex_trade_state

\* C19: a component call either returns Ok with all of its effects in
\* place or fails with none: after a failed swap, initialize_pool,
\* execute_trade_from_state, execute_arbitrage_atomic or
\* atomic_flash_loan_with_arbitrage no pool reserve, trade status, session
\* field, loan-pool field or holding differs from before the call.
C19_AllOrNothing ==
    /\ RolledBack => Accounts = saved
    /\ Done("swap") => SwapApplied
    /\ Done("execute_trade_from_state") => TradeApplied
    /\ Done("initialize_pool") => PoolInitialized
    /\ Done("arbitrage") =>
           /\ ArbitrageApplied
           /\ <<pool_state, lamports, records>>
                = <<saved.pool_state, saved.lamports, saved.records>>
    /\ Done("flash_loan") =>
           /\ ArbitrageApplied
           /\ LoanIssued
           /\ Repaid
           /\ Cardinality(records) = Cardinality(saved.records) + 1

\* an execute_trade_from_state that had marked the trade Executing failed
\* on the pool's liquidity, and the trade is Pending as before the call
C19_Witness ==
    /\ tx.ix = "execute_trade_from_state"
    /\ RolledBack
    /\ err = "InsufficientLiquidity"
    /\ dex_trade_state[tx.trade_id].status = "Pending"
    /\ \E n \in DOMAIN dex : n \notin PoolNames

\* the running swap's pool with the reserve update applied
ReservesUpdated ==
    dex[sw.pool] =
        IF InputIsX
        THEN [sw.before EXCEPT !.x_balance = @ + sw.amount_in,
                               !.y_balance = @ - sw.amount_out]
        ELSE [sw.before EXCEPT !.y_balance = @ + sw.amount_in,
                               !.x_balance = @ - sw.amount_out]

\* neither, the first, or both of the running swap's transfers have moved
\* their tokens
NoTransferYet ==
    /\ vaults[sw.pool] = sw.vault_before
    /\ tokens[sw.holder] = sw.holder_before

TransferInDone ==
    /\ vaults[sw.pool] = [sw.vault_before EXCEPT ![sw.tin] = @ + sw.amount_in]
    /\ tokens[sw.holder] = [sw.holder_before EXCEPT ![sw.tin] = @ - sw.amount_in]

C21_LedgerBeforeLoanTransfer ==
    tx.ix = "flash_loan" =>
        /\ pc = "fl_loan_state" =>
               pool_state = saved.pool_state /\ lamports = saved.lamports
        /\ pc = "fl_loan_transfer" =>
               /\ pool_state = [saved.pool_state EXCEPT
                                   !.balance = @ - tx.amount,
                                   !.total_borrowed = @ + tx.amount]
               /\ lamports = saved.lamports
        /\ pc = "arb_validate" =>
               /\ pool_state = [saved.pool_state EXCEPT
                                   !.balance = @ - tx.amount,
                                   !.total_borrowed = @ + tx.amount]
               /\ lamports = [saved.lamports EXCEPT
                                 !.pool = @ - tx.amount,
                                 !.borrower = @ + tx.amount]

\* the ledger shows a loan whose funds are still in the pool's custody
C21_Witness ==
    /\ tx.ix = "flash_loan"
    /\ pc = "fl_loan_transfer"
    /\ tx.amount > 0
    /\ pool_state.total_borrowed = saved.pool_state.total_borrowed + tx.amount
    /\ lamports.pool = saved.lamports.pool

\* what the pool account held before initialize moved the seed balance in
PoolReserve == InitLamports.pool - InitPoolState.balance

\* the funds in the pool's custody that are there to lend
Custody == lamports.pool - PoolReserve

\* C22 as stated: at every step of every transaction, the steps inside
\* issuance and repayment included, the pool's ledger balance is at most the
\* funds held in the pool's custody.
C22_LedgerNeverAboveCustody == pool_state.balance <= Custody

\* C22 amended: the ledger balance is at most the funds in custody at every
\* step except between the ledger update and the transfer of
\* process_repayment, where it exceeds them by amount + fee.
C22_LedgerAboveCustodyOnlyInRepayment ==
    /\ pc # "fl_repay_transfer" => pool_state.balance <= Custody
    /\ pc = "fl_repay_transfer" =>
           pool_state.balance = Custody + tx.amount + tx.fee
    /\ pc = "fl_loan_transfer" =>
           pool_state.balance = Custody - tx.amount

\* the repayment is in the ledger and not yet in the pool's custody
C22_Witness ==
    /\ pc = "fl_repay_transfer"
    /\ tx.fee > 0
    /\ pool_state.balance > Custody

\* the ledger and the lamports as execute_loan left them, which is how
\* process_repayment finds them
AfterLoan ==
    /\ pool_state.balance = saved.pool_state.balance - tx.amount
    /\ pool_state.total_repaid = saved.pool_state.total_repaid
    /\ lamports.borrower = saved.lamports.borrower + tx.amount
    /\ lamports.pool = saved.lamports.pool - tx.amount

\* C23: process_repayment succeeds only when the borrower's funds are at
\* least amount + fee, and otherwise fails with
\* InsufficientFundsForRepayment before it changes balance or total_repaid;
\* on success balance and total_repaid have each grown by exactly
\* amount + fee and the borrower's funds have shrunk by exactly amount + fee.
C23_RepaymentAllOrRefused ==
    tx.ix = "flash_loan" =>
        LET total_repayment == tx.amount + tx.fee
        IN  /\ pc = "fl_repay_check" => AfterLoan
            /\ (pc = "failed" /\ err = "InsufficientFundsForRepayment") =>
                   /\ lamports.borrower < total_repayment
                   /\ AfterLoan
            /\ pc \in {"fl_repay_state", "fl_repay_transfer"} =>
                   lamports.borrower >= total_repayment
            /\ pc = "fl_record" =>
                   /\ pool_state.balance
                         = saved.pool_state.balance - tx.amount + total_repayment
                   /\ pool_state.total_repaid
                         = saved.pool_state.total_repaid + total_repayment
                   /\ lamports.borrower
                         = saved.lamports.borrower + tx.amount - total_repayment
                   /\ lamports.borrower >= 0
                   /\ lamports.pool
                         = saved.lamports.pool - tx.amount + total_repayment

\* a repayment refused for a borrower who holds the principal but not the fee
C23_Witness ==
    /\ tx.ix = "flash_loan"
    /\ pc = "failed"
    /\ err = "InsufficientFundsForRepayment"
    /\ lamports.borrower >= tx.amount
    /\ lamports.borrower < tx.amount + tx.fee

\* C24: the pool's status is always Active or Emergency; a successful
\* emergency_pause leaves it Emergency, a successful resume_pool leaves it
\* Active, no other instruction changes it, and a flash loan whose handler
\* runs while the status is Emergency fails with PoolNotActive (a call
\* refused before its handler runs, because its record account exists
\* already, fails with that error).
C24_PausedPoolRefusesLoans ==
    /\ pool_state.status \in {"Active", "Emergency"}
    /\ Done("emergency_pause") => pool_state.status = "Emergency"
    /\ Done("resume_pool") => pool_state.status = "Active"
    /\ ~(Done("emergency_pause") \/ Done("resume_pool")) =>
           pool_state.status = saved.pool_state.status
    /\ (/\ tx.ix = "flash_loan"
        /\ saved.pool_state.status = "Emergency"
        /\ pc # "fl_validate") =>
           /\ pc \in {"failed", "idle"}
           /\ err \in {"PoolNotActive", "AccountAlreadyInUse"}
           /\ err = "AccountAlreadyInUse" => saved.records # {}

\* a flash loan the paused pool could have funded has been refused
C24_Witness ==
    /\ tx.ix = "flash_loan"
    /\ saved.pool_state.status = "Emergency"
    /\ pc = "failed"
    /\ err = "PoolNotActive"
    /\ tx.amount > 0
    /\ pool_state.balance >= tx.amount
    /\ pool_state.last_updated > 0

\* C25: execute_arbitrage_atomic looks at the session latch first, so a call
\* on an executing session is refused with ReentrancyDetected whatever its
\* arguments; on an idle session loan_amount = 0 and then
\* min_expected_profit = 0 are refused with their parameter error, with
\* is_executing still false, total_trades and total_profit unchanged, and
\* no swap invoked.
C25_ValidationOrder ==
    [][ /\ \A i \in NestedInputs :
              arbitrage_nested_call(i[1], i[2]) =>
                  /\ arbitrage_bot.is_executing
                  /\ pc' = "failed" /\ err' = "ReentrancyDetected"
                  /\ arbitrage_bot' = arbitrage_bot
        /\ (/\ arbitrage_validate
            /\ ~arbitrage_bot.is_executing
            /\ (tx.amount = 0 \/ tx.min_expected_profit = 0)) =>
               /\ pc' = "failed"
               /\ err' = (IF tx.amount = 0 THEN "InvalidLoanAmount"
                                           ELSE "InvalidProfitRequirement")
               /\ ~arbitrage_bot'.is_executing
               /\ arbitrage_bot' = arbitrage_bot
               /\ arbitrage_bot = saved.arbitrage_bot
               /\ UNCHANGED <<dex, vaults, tokens, sw>>
               /\ <<dex, vaults, tokens>>
                    = <<saved.dex, saved.vaults, saved.tokens>>
        /\ (/\ arbitrage_validate
            /\ ~arbitrage_bot.is_executing
            /\ tx.amount > 0 /\ tx.min_expected_profit > 0) =>
               pc' = "arb_first_swap" ]_vars

\* a call with a zero profit floor has been refused on an idle session
C25_Witness ==
    /\ HasArbitrage
    /\ pc = "failed"
    /\ err = "InvalidProfitRequirement"
    /\ tx.amount > 0
    /\ tx.min_expected_profit = 0
    /\ ~arbitrage_bot.is_executing

\* C26: the minimum-output floor computed for an orchestrated swap is
\* floor(floor(amount_in * 9970 / 10000) * 9000 / 10000); when
\* amount_in * 9970 does not fit in a u64 the computation fails with
\* CalculationOverflow and never returns a wrapped value.
C26_MinOutIsTwoFloors ==
    (calc.fn = "calculate_min_amount_out" /\ calc.done) =>
        LET product == BigMulSmall(calc.amount, 9970)
        IN  IF BigLess(U64_MAX, product)
            THEN ~calc.res.ok /\ calc.res.err = "CalculationOverflow"
            ELSE /\ calc.res.ok
                 /\ \E e \in {BigDivBps(product)} :
                       /\ IsFloorDiv(e, product, <<0, 1>>)
                       /\ IsFloorDiv(calc.res.val, BigMulSmall(e, 9000),
                                     <<0, 1>>)
                 /\ (calc.amount = <<0, 100>>) => calc.res.val = <<7300, 89>>

C26_Witness ==
    /\ calc.fn = "calculate_min_amount_out" /\ calc.done
    /\ calc.amount = <<8812, 8261, 2250, 1850>>
    /\ ~calc.res.ok
    /\ calc.res.err = "CalculationOverflow"

\* C27: swap rejects amount_in = 0: no swap called with amount_in = 0
\* returns Ok, whatever min_amount_out and the reserves are.
C27_ZeroInputSwapRejected ==
    (tx.ix = "swap" /\ sw.amount_in = 0 /\ pc = "idle") => err # "Ok"

\* C28: initialize_pool gets past its checks only with both seed amounts
\* positive, a pool name of 1..32 bytes and initializer holdings of at least
\* the seed amount in each asset; a call that is rejected has moved no
\* tokens and set no reserve at the moment it is rejected; a call that
\* succeeds leaves x_balance = initial_x_amount and
\* y_balance = initial_y_amount.
C28_InitializePoolAllOrRefused ==
    tx.ix = "initialize_pool" =>
        /\ (pc \in {"init_transfer_x", "init_transfer_y", "init_set"}
                \/ Done("initialize_pool")) =>
              /\ tx.initial_x_amount > 0
              /\ tx.initial_y_amount > 0
              /\ name_len(tx.pool_name) \in 1..32
              /\ saved.tokens["trader"].x >= tx.initial_x_amount
              /\ saved.tokens["trader"].y >= tx.initial_y_amount
        /\ pc = "failed" =>
              /\ tokens = saved.tokens
              /\ \A n \in DOMAIN saved.dex :
                     dex[n] = saved.dex[n] /\ vaults[n] = saved.vaults[n]
              /\ \A n \in DOMAIN dex \ DOMAIN saved.dex :
                     /\ dex[n] = [x_balance |-> 0, y_balance |-> 0]
                     /\ vaults[n] = [x |-> 0, y |-> 0]
        /\ RolledBack =>
              tokens = saved.tokens /\ dex = saved.dex /\ vaults = saved.vaults
        /\ Done("initialize_pool") =>
              dex[tx.pool_name] = [x_balance |-> tx.initial_x_amount,
                                   y_balance |-> tx.initial_y_amount]

C28_Witness ==
    /\ tx.ix = "initialize_pool"
    /\ pc = "failed"
    /\ err = "InsufficientLiquidity"
    /\ tx.initial_x_amount > 0
    /\ tokens["trader"].x >= tx.initial_x_amount
    /\ tokens["trader"].y < tx.initial_y_amount
    /\ tx.pool_name \in DOMAIN dex \ DOMAIN saved.dex

C30_InitializeBoundsFee ==
    /\ pool_state.fee_bps <= MAX_POOL_FEE_BPS
    /\ (tx.ix = "initialize" /\ tx.fee_bps > MAX_POOL_FEE_BPS) =>
          /\ pc # "init_pool_transfer"
          /\ ~Done("initialize")
          /\ (pc = "failed" /\ saved.lamports.pool = 0) => err = "InvalidFeeRate"
    /\ Done("initialize") =>
          /\ pool_state.balance = tx.initial_balance
          /\ pool_state.fee_bps = tx.fee_bps
          /\ pool_state.status = "Active"
          /\ pool_state.total_borrowed = 0
          /\ pool_state.total_repaid = 0
          /\ pool_state.active_loans = 0
          /\ pool_state.authority = tx.signer
          /\ lamports.pool = saved.lamports.pool + Rent + tx.initial_balance
          /\ lamports[tx.signer]
                = saved.lamports[tx.signer] - Rent - tx.initial_balance

C30_Witness ==
    /\ Done("initialize")
    /\ tx.fee_bps = MAX_POOL_FEE_BPS
    /\ pool_state.fee_bps = MAX_POOL_FEE_BPS
    /\ tx.initial_balance > 0
    /\ lamports.pool = Rent + tx.initial_balance

\* the step ended the transaction with an overflow or underflow error
OverflowAbort ==
    /\ calc'.phase = "aborted"
    /\ calc'.err \in {"Overflow", "Underflow", "CalculationOverflow"}

\* C31: every arithmetic step that updates a ledger is overflow-checked:
\* a step whose exact result leaves the u64 range ends the transaction with
\* an overflow or underflow error, and a step that goes through stores the
\* exact result; no stored value wraps modulo 2^64.  Stated on the ledgers
\* at full width: the pool's balance, total_borrowed and total_repaid,
\* amount + fee, and the bot's total_trades and total_profit.
C31_NoStoredValueWraps ==
    [][ /\ calc.phase = "execute_loan" =>
              LET t == BigAdd(calc.pool.total_borrowed, calc.amount)
              IN  IF BigLeq(t, U64_MAX)
                  THEN calc'.phase # "aborted" =>
                         /\ calc'.pool.total_borrowed = t
                         /\ BigAdd(calc'.pool.balance, calc.amount)
                               = calc.pool.balance
                  ELSE OverflowAbort
        /\ calc.phase = "arbitrage_enter" =>
              LET n == BigAdd(calc.bot.total_trades, <<1>>)
              IN  IF BigLeq(n, U64_MAX)
                  THEN calc'.phase # "aborted" => calc'.bot.total_trades = n
                  ELSE OverflowAbort
        /\ calc.phase = "arbitrage_finish" =>
              LET p == BigAdd(calc.bot.total_profit, calc.profit)
              IN  IF BigLeq(p, U64_MAX)
                  THEN calc'.phase # "aborted" => calc'.bot.total_profit = p
                  ELSE OverflowAbort
        /\ calc.phase = "process_repayment" =>
              LET total == BigAdd(calc.amount, calc.fee)
                  b == BigAdd(calc.pool.balance, total)
                  r == BigAdd(calc.pool.total_repaid, total)
              IN  IF BigLeq(total, U64_MAX) /\ BigLeq(b, U64_MAX)
                         /\ BigLeq(r, U64_MAX)
                  THEN calc'.phase # "aborted" =>
                         /\ calc'.pool.balance = b
                         /\ calc'.pool.total_repaid = r
                  ELSE OverflowAbort \/ calc'.err = "InsufficientFundsForRepayment"
      ]_vars

\* C32: in every state, those between issuance and repayment included,
\* balance + total_borrowed - total_repaid is the balance the pool was
\* initialized with, and total_borrowed and total_repaid never decrease.
C32_LedgerIdentity ==
    [][ calc.fn = "atomic_flash_loan_with_arbitrage" =>
          /\ BigAdd(calc'.pool.balance, calc'.pool.total_borrowed)
                = BigAdd(calc'.initial_balance, calc'.pool.total_repaid)
          /\ BigLeq(calc.pool.total_borrowed, calc'.pool.total_borrowed)
          /\ BigLeq(calc.pool.total_repaid, calc'.pool.total_repaid)
      ]_vars

\* C33: a DexTradeState is executed at most once.  A trade becomes
\* Completed only through execute_trade_from_state on this trade_id, from a
\* trade that was Pending when the transaction began, and with
\* actual_amount_out = floor(amount_in * 9970 / 10000); a Completed trade
\* is never written again, so its status never returns to Pending; and
\* execute_trade_from_state on a Completed trade fails with
\* InvalidTradeStatus, leaving the pool's balances as they are.
C33_TradeExecutedOnce ==
    [][ /\ \A t \in DOMAIN dex_trade_state :
              /\ dex_trade_state[t].status = "Completed" =>
                    dex_trade_state'[t] = dex_trade_state[t]
              /\ (dex_trade_state[t].status # "Completed"
                      /\ dex_trade_state'[t].status = "Completed") =>
                    /\ tx.ix = "execute_trade_from_state"
                    /\ tx.trade_id = t
                    /\ dex_trade_state[t].trade_id = t
                    /\ saved.dex_trade_state[t].status = "Pending"
                    /\ IsFloorDiv(BigFromNat(dex_trade_state'[t].actual_amount_out),
                                  BigFromNat(dex_trade_state[t].amount_in * 9970),
                                  <<0, 1>>)
        /\ (pc = "trade_validate"
                /\ dex_trade_state[tx.trade_id].status = "Completed") =>
              /\ pc' = "failed"
              /\ err' = "InvalidTradeStatus"
              /\ dex' = dex
              /\ dex = saved.dex
      ]_vars

C33_Witness ==
    /\ tx.ix = "execute_trade_from_state"
    /\ pc = "failed"
    /\ err = "InvalidTradeStatus"
    /\ dex_trade_state[tx.trade_id].status = "Completed"
    /\ dex_trade_state[tx.trade_id].actual_amount_out = 9
    /\ dex = saved.dex

\* C34: for every amount_in > 0 the output of swap is strictly less than
\* amount_in and at least the floor calculate_min_amount_out(amount_in) the
\* orchestrator passes; hence no swap called by the orchestrator fails the
\* slippage check, and the second of the two chained swaps pays out strictly
\* less X than the loan_amount the chain started from.
C34_ChainPaysLessThanLoan ==
    /\ (pc \in {"swap_transfer_in", "swap_update", "swap_transfer_out"}
            /\ sw.amount_in > 0) =>
          /\ sw.amount_out < sw.amount_in
          /\ sw.amount_out
                >= BigToNat(calculate_min_amount_out(BigFromNat(sw.amount_in)).val)
    /\ (sw.holder = "bot" /\ pc = "failed") => err # "SlippageTooHigh"
    /\ (pc = "arb_finish" /\ tx.amount > 0) => sw.amount_out < tx.amount

=============================================================================
